---------------------------- MODULE Spec2Model ----------------------------
(***************************************************************************)
(* Model of the nplpi MSF receiver: the minute framer (input.c: the bit     *)
(* readers and next_bit), the time decoder (decode_time.c) and the main     *)
(* loop (mainloop.c).                                                       *)
(*                                                                          *)
(* Two specifications are given.  Spec runs mainloop() over a stream of     *)
(* seconds (live input) or log characters (file input).  SpecDecode calls   *)
(* decode_time() once on inputs drawn from bounded sets.                    *)
(***************************************************************************)
EXTENDS Integers, Sequences, FiniteSets, TLC

(***************************************************************************)
(* Program constants.                                                      *)
(***************************************************************************)
BUFLEN == 61

base_year == 1900

(***************************************************************************)
(* struct tm, as far as the decoder uses it.                               *)
(***************************************************************************)
MkTm(mi, ho, md, mo, ye, wd, dst) == [tm_min |-> mi, tm_hour |-> ho, tm_mday |-> md, tm_mon |-> mo, tm_year |-> ye, tm_wday |-> wd, tm_isdst |-> dst]

\* memset(&tm, 0, sizeof(tm))
ZeroTm == MkTm(0, 0, 0, 0, 0, 0, 0)

(***************************************************************************)
(* calendar.c is not part of the sources at hand; these four operators     *)
(* follow the description of the Calendar component.                       *)
(***************************************************************************)
isleapyear(year) == (year % 4 = 0 /\ year % 100 # 0) \/ year % 400 = 0

lastday(time) ==
  IF time.tm_mon \in {4, 6, 9, 11} THEN 30
  ELSE IF time.tm_mon = 2 THEN (IF isleapyear(time.tm_year) THEN 29 ELSE 28)
  ELSE 31

\* Day of the week of a Gregorian date, 0 = Sunday .. 6 = Saturday.
DayOfWeek(year, mon, mday) ==
  LET t == <<0, 3, 2, 5, 0, 3, 5, 1, 4, 6, 2, 4>>
      y == IF mon < 3 THEN year - 1 ELSE year
  IN  (y + (y \div 4) - (y \div 100) + (y \div 400) + t[mon] + mday) % 7

\* A partial date (two-digit year, month, day) that names a day of the
\* calendar in at least one of the four centuries.
WellFormedDate(time) ==
  /\ time.tm_year \in 0..99
  /\ time.tm_mon \in 1..12
  /\ time.tm_mday >= 1
  /\ time.tm_wday \in 0..7
  /\ \/ time.tm_mday <= lastday([time EXCEPT !.tm_year = 1901])
     \/ time.tm_mon = 2 /\ time.tm_mday = 29 /\ time.tm_year % 4 = 0 /\ time.tm_year # 0

\* The values century_offset(time) may return: the century, counted from
\* base_year, in which the date falls on the given day of the week, or -1 when
\* there is none.  The description fixes the result for a well-formed partial
\* date only; for any other argument every value of the range is allowed.
century_offset(time) ==
  IF WellFormedDate(time)
  THEN LET fit == {c \in 0..3 : DayOfWeek(base_year + 100 * c + time.tm_year, time.tm_mon, time.tm_mday) = time.tm_wday % 7}
       IN  IF fit = {} THEN {-1} ELSE fit
  ELSE -1..3

\* add_minute(time, dst_announce): one minute later, the carries running
\* through hour, day, month and year; with an announced change of the time
\* offset, the hour and the flag are adjusted on the last Sunday of March
\* and of October.
add_minute(time, dst_announce) ==
  LET m1 == IF time.tm_min >= 59 THEN [time EXCEPT !.tm_min = 0, !.tm_hour = @ + 1] ELSE [time EXCEPT !.tm_min = @ + 1]
      carry == m1.tm_hour >= 24
      h1 == IF carry THEN [m1 EXCEPT !.tm_hour = 0, !.tm_mday = @ + 1, !.tm_wday = IF @ >= 7 THEN 1 ELSE @ + 1] ELSE m1
      d1 == IF carry /\ h1.tm_mday > lastday(m1) THEN [h1 EXCEPT !.tm_mday = 1, !.tm_mon = @ + 1] ELSE h1
      y1 == IF d1.tm_mon >= 13 THEN [d1 EXCEPT !.tm_mon = 1, !.tm_year = @ + 1] ELSE d1
      lastSunday == y1.tm_wday % 7 = 0 /\ y1.tm_mday > lastday(y1) - 7
  IN  IF dst_announce /\ y1.tm_min = 0 /\ lastSunday /\ y1.tm_mon = 3 /\ y1.tm_hour = 1 /\ y1.tm_isdst = 0
        THEN [y1 EXCEPT !.tm_hour = 2, !.tm_isdst = 1]
      ELSE IF dst_announce /\ y1.tm_min = 0 /\ lastSunday /\ y1.tm_mon = 10 /\ y1.tm_hour = 2 /\ y1.tm_isdst = 1
        THEN [y1 EXCEPT !.tm_hour = 1, !.tm_isdst = 0]
      ELSE y1

(***************************************************************************)
(* decode_time.c                                                           *)
(***************************************************************************)

\* The A bit and the B bit of a buffer symbol, as getpar() and getbcd() read
\* them: buffer[i] & 1 and buffer[i] >> 1.
RECURSIVE SumA(_, _, _)
SumA(buffer, start, stop) ==
  IF start > stop THEN 0 ELSE (buffer[start] % 2) + SumA(buffer, start + 1, stop)

getpar_even(buffer, start, stop, parity) ==
  ((SumA(buffer, start, stop) + (buffer[parity] \div 2)) % 2) = 0

getpar(buffer, start, stop, parity) ==
  ((SumA(buffer, start, stop) + (buffer[parity] \div 2)) % 2) = 1

\* The loop of getbcd(), from i = stop down to start.
RECURSIVE getbcd_loop(_, _, _, _, _)
getbcd_loop(buffer, i, start, mul, val) ==
  IF i < start THEN val
  ELSE LET val1 == val + mul * (buffer[i] % 2)
           mul1 == mul * 2
       IN  IF mul1 = 16
           THEN (IF val1 > 9 THEN 100 ELSE getbcd_loop(buffer, i - 1, start, 10, val1))
           ELSE getbcd_loop(buffer, i - 1, start, mul1, val1)

getbcd(buffer, start, stop) == getbcd_loop(buffer, stop, start, 1, 0)


\* struct DT_result.  bit52_ok, leapsecond_status and dst_announce are never
\* written by the code that is compiled in; they keep their static zero value.
DtResInit == [bit0_ok |-> FALSE, bit52_ok |-> FALSE, bit59_ok |-> FALSE, minute_length |-> "emin_ok", minute_status |-> "eval_ok", hour_status |-> "eval_ok", mday_status |-> "eval_ok", wday_status |-> "eval_ok", month_status |-> "eval_ok", year_status |-> "eval_ok", dst_status |-> "eDST_ok", leapsecond_status |-> "els_none", dst_announce |-> FALSE]

minute_length_short59(minlen) ==
  IF minlen = -1 \/ minlen > 61 THEN "emin_long"
  ELSE IF minlen <= 59 THEN "emin_short"
  ELSE "emin_ok"

minute_length_of(minlen) ==
  IF minlen = -1 \/ minlen > 61 THEN "emin_long"
  ELSE IF minlen < 59 THEN "emin_short"
  ELSE "emin_ok"

\* check_time_sanity(): the updated dt_res; its return value is sanity_ok.
check_time_sanity(minlen, buffer, dtres) ==
  [dtres EXCEPT !.minute_length = minute_length_of(minlen), !.dst_status = "eDST_ok", !.bit0_ok = (buffer[0] = 4), !.bit59_ok = (buffer[59] = 0)]

sanity_ok(dtres) == dtres.minute_length = "emin_ok" /\ dtres.bit0_ok /\ dtres.bit59_ok

\* A loop that stops after its first add_minute() call.
add_minutes_once(time, n, dst_announce) ==
  IF n <= 0 THEN time ELSE add_minute(time, dst_announce)

\* The loop of add_minute() calls in increase_old_time().
RECURSIVE add_minutes(_, _, _)
add_minutes(time, n, dst_announce) ==
  IF n <= 0 THEN time ELSE add_minutes(add_minute(time, dst_announce), n - 1, dst_announce)

\* increase_old_time(): the number of minutes, the static acc_minlen_partial
\* and the advanced time.  The increase is never negative (acc_minlen is
\* unsigned), so the substract_minute() loop never runs.
increase_old_time(init_min, acc, partial, time, dtres) ==
  LET combine == acc <= 59000
      part1 == IF combine THEN partial + acc ELSE partial
      acc1 == IF combine /\ part1 >= 60000 THEN part1 ELSE acc
      part2 == IF combine /\ part1 >= 60000 THEN part1 % 60000 ELSE part1
      inc0 == acc1 \div 60000
      part3 == IF acc1 >= 60000 THEN part2 % 60000 ELSE part2
      short == (acc1 % 60000) > 59000
      inc == IF short THEN inc0 + 1 ELSE inc0
      part4 == IF short THEN part3 % 60000 ELSE part3
  IN  [increase |-> inc, partial |-> part4, time |-> IF init_min < 2 THEN add_minutes(time, inc, dtres.dst_announce) ELSE time]

\* calculate_date_time() works on the parity flags p1..p4, the candidate time
\* and dt_res; a record c carries them from one field to the next.
may_set(init_min, errflags, increase) == (init_min = 2 \/ increase # 0) /\ errflags = 0

\* year: bits 17..24, parity bit 54
calc_year(init_min, errflags, increase, buffer, c) ==
  LET p == getpar(buffer, 17, 24, 54)
      tmp0 == getbcd(buffer, 17, 24)
      st == IF ~p THEN "eval_parity" ELSE IF tmp0 > 99 THEN "eval_bcd" ELSE "eval_ok"
      p1 == p /\ tmp0 <= 99
  IN  [c EXCEPT !.p1 = p1, !.dt.year_status = st,
                !.newtime.tm_year = IF may_set(init_min, errflags, increase) /\ p1 THEN tmp0 ELSE @]

\* month and day of month: bits 25..29 and 30..35, parity bit 55
calc_month_mday(init_min, errflags, increase, buffer, time, c) ==
  LET p == getpar(buffer, 25, 35, 55)
      tmp0 == getbcd(buffer, 25, 29)
      tmp1 == getbcd(buffer, 30, 35)
      monbad == tmp0 = 0 \/ tmp0 > 12
      daybad == tmp1 = 0 \/ tmp1 > 31
      p2 == p /\ ~monbad /\ ~daybad
      set == may_set(init_min, errflags, increase) /\ p2
      mst == IF ~p THEN "eval_parity" ELSE IF monbad THEN "eval_bcd" ELSE "eval_ok"
      dst == IF ~p THEN "eval_parity" ELSE IF daybad THEN "eval_bcd" ELSE "eval_ok"
  IN  [c EXCEPT !.p2 = p2,
                !.dt.month_status = IF set /\ init_min = 0 /\ time.tm_mon # tmp0 THEN "eval_jump" ELSE mst,
                !.dt.mday_status = IF set /\ init_min = 0 /\ time.tm_mday # tmp1 THEN "eval_jump" ELSE dst,
                !.newtime.tm_mon = IF set THEN tmp0 ELSE @,
                !.newtime.tm_mday = IF set THEN tmp1 ELSE @]

\* calc_wday() with a range check that rejects the value 0 as well.
calc_wday_nosunday(init_min, errflags, increase, buffer, time, c) ==
  LET p == getpar(buffer, 36, 38, 56)
      tmp0 == getbcd(buffer, 36, 38)
      p3 == p /\ tmp0 # 7 /\ tmp0 # 0
      set == may_set(init_min, errflags, increase) /\ p3
      st == IF ~p THEN "eval_parity" ELSE IF tmp0 = 7 \/ tmp0 = 0 THEN "eval_bcd" ELSE "eval_ok"
  IN  [c EXCEPT !.p3 = p3,
                !.dt.wday_status = IF set /\ init_min = 0 /\ time.tm_wday # tmp0 THEN "eval_jump" ELSE st,
                !.newtime.tm_wday = IF set THEN tmp0 ELSE @]

\* day of the week: bits 36..38, parity bit 56
calc_wday(init_min, errflags, increase, buffer, time, c) ==
  LET p == getpar(buffer, 36, 38, 56)
      tmp0 == getbcd(buffer, 36, 38)
      p3 == p /\ tmp0 # 7
      set == may_set(init_min, errflags, increase) /\ p3
      st == IF ~p THEN "eval_parity" ELSE IF tmp0 = 7 THEN "eval_bcd" ELSE "eval_ok"
  IN  [c EXCEPT !.p3 = p3,
                !.dt.wday_status = IF set /\ init_min = 0 /\ time.tm_wday # tmp0 THEN "eval_jump" ELSE st,
                !.newtime.tm_wday = IF set THEN tmp0 ELSE @]

\* A century check that, without a century, rejects month and day as well.
calc_century_cascade(init_min, time, centofs, c) ==
  IF centofs = -1
  THEN [c EXCEPT !.dt.year_status = "eval_bcd", !.p1 = FALSE, !.p2 = FALSE]
  ELSE LET full == base_year + 100 * centofs + c.newtime.tm_year
           nt == [c.newtime EXCEPT !.tm_year = full]
           c1 == [c EXCEPT !.newtime = nt,
                           !.dt.year_status = IF init_min = 0 /\ time.tm_year # full THEN "eval_jump" ELSE @]
       IN  IF nt.tm_mday > lastday(nt)
           THEN [c1 EXCEPT !.dt.mday_status = "eval_bcd", !.p1 = FALSE, !.p2 = FALSE, !.p3 = FALSE]
           ELSE c1

\* calc_century() with a day-of-month ceiling that gives the month and the
\* year the status bcd as well.
calc_century_trio(init_min, time, centofs, c) ==
  IF centofs = -1
  THEN [c EXCEPT !.dt.year_status = "eval_bcd", !.p1 = FALSE]
  ELSE LET full == base_year + 100 * centofs + c.newtime.tm_year
           nt == [c.newtime EXCEPT !.tm_year = full]
           c1 == [c EXCEPT !.newtime = nt,
                           !.dt.year_status = IF init_min = 0 /\ time.tm_year # full THEN "eval_jump" ELSE @]
       IN  IF nt.tm_mday > lastday(nt)
           THEN [c1 EXCEPT !.dt.mday_status = "eval_bcd", !.dt.month_status = "eval_bcd", !.dt.year_status = "eval_bcd",
                           !.p1 = FALSE, !.p2 = FALSE, !.p3 = FALSE]
           ELSE c1

\* The century and the length of the month, with centofs the value that
\* century_offset(*newtime) returned.
calc_century(init_min, time, centofs, c) ==
  IF centofs = -1
  THEN [c EXCEPT !.dt.year_status = "eval_bcd", !.p1 = FALSE]
  ELSE LET full == base_year + 100 * centofs + c.newtime.tm_year
           nt == [c.newtime EXCEPT !.tm_year = full]
           c1 == [c EXCEPT !.newtime = nt,
                           !.dt.year_status = IF init_min = 0 /\ time.tm_year # full THEN "eval_jump" ELSE @]
       IN  IF nt.tm_mday > lastday(nt)
           THEN [c1 EXCEPT !.dt.mday_status = "eval_bcd", !.p1 = FALSE, !.p2 = FALSE, !.p3 = FALSE]
           ELSE c1

\* hour and minute: bits 39..44 and 45..51, parity bit 57
calc_hour_minute(init_min, errflags, increase, buffer, time, c) ==
  LET p == getpar(buffer, 39, 51, 57)
      tmp0 == getbcd(buffer, 39, 44)
      tmp1 == getbcd(buffer, 45, 51)
      p4 == p /\ tmp0 <= 23 /\ tmp1 <= 59
      set == may_set(init_min, errflags, increase) /\ p4
      hst == IF ~p THEN "eval_parity" ELSE IF tmp0 > 23 THEN "eval_bcd" ELSE "eval_ok"
      mst == IF ~p THEN "eval_parity" ELSE IF tmp1 > 59 THEN "eval_bcd" ELSE "eval_ok"
  IN  [c EXCEPT !.p4 = p4,
                !.dt.hour_status = IF set /\ init_min = 0 /\ time.tm_hour # tmp0 THEN "eval_jump" ELSE hst,
                !.dt.minute_status = IF set /\ init_min = 0 /\ time.tm_min # tmp1 THEN "eval_jump" ELSE mst,
                !.newtime.tm_hour = IF set THEN tmp0 ELSE @,
                !.newtime.tm_min = IF set THEN tmp1 ELSE @]

Bit(b) == IF b THEN 1 ELSE 0

\* The return value of calculate_date_time().
errflags_of(errflags, c) ==
  errflags * 16 + 8 * Bit(~c.p4) + 4 * Bit(~c.p3) + 2 * Bit(~c.p2) + Bit(~c.p1)

\* calculate_date_time() up to the call of century_offset(): the year, the
\* month and day, and the day of the week.
calc_before_century(init_min, errflags, increase, buffer, time, newtime, dtres) ==
  LET c0 == [p1 |-> FALSE, p2 |-> FALSE, p3 |-> FALSE, p4 |-> FALSE, newtime |-> newtime, dt |-> dtres]
      c1 == calc_year(init_min, errflags, increase, buffer, c0)
      c2 == calc_month_mday(init_min, errflags, increase, buffer, time, c1)
  IN  calc_wday(init_min, errflags, increase, buffer, time, c2)

\* calculate_date_time() from the call of century_offset() on.
calculate_date_time(init_min, errflags, increase, buffer, time, centofs, c) ==
  LET c4 == calc_century(init_min, time, centofs, c)
      c5 == calc_hour_minute(init_min, errflags, increase, buffer, time, c4)
  IN  [errflags |-> errflags_of(errflags, c5), newtime |-> c5.newtime, dt |-> c5.dt]

commit_ok_mask15(errflags, dtres) == dtres.minute_length = "emin_ok" /\ errflags % 16 = 0

commit_ok_mask30(errflags, dtres) == dtres.minute_length = "emin_ok" /\ (errflags % 32) \div 2 = 0

\* The condition of stamp_date_time(): (errflags & 0x1f) == 0 and a good length.
commit_ok(errflags, dtres) == dtres.minute_length = "emin_ok" /\ errflags % 32 = 0

\* A stamp_date_time() that keeps a minute with a jumped field out.
stamp_date_time_nojump(errflags, newtime, time, dtres) ==
  IF commit_ok(errflags, dtres) /\ "eval_jump" \notin {dtres.minute_status, dtres.hour_status, dtres.mday_status, dtres.wday_status, dtres.month_status, dtres.year_status}
  THEN [time EXCEPT !.tm_min = newtime.tm_min, !.tm_hour = newtime.tm_hour, !.tm_mday = newtime.tm_mday, !.tm_mon = newtime.tm_mon, !.tm_year = newtime.tm_year, !.tm_wday = newtime.tm_wday]
  ELSE time

stamp_date_time(errflags, newtime, time, dtres) ==
  IF commit_ok(errflags, dtres)
  THEN [time EXCEPT !.tm_min = newtime.tm_min, !.tm_hour = newtime.tm_hour, !.tm_mday = newtime.tm_mday, !.tm_mon = newtime.tm_mon, !.tm_year = newtime.tm_year, !.tm_wday = newtime.tm_wday,
                    !.tm_isdst = IF dtres.dst_status # "eDST_jump" THEN newtime.tm_isdst ELSE @]
  ELSE time

\* decode_time() up to the call of century_offset().  st holds the statics of
\* decode_time.c (dt_res, minute_count, dst_count, acc_minlen_partial, olderr).
\* The result carries the locals: the time after the advance (adv.time), the
\* flags and the candidate time (cb), errflags (err0).
decode_time_begin(init_min, minlen, acc, buffer, time, st) ==
  LET time0 == IF init_min = 2 THEN [time EXCEPT !.tm_isdst = -1] ELSE time
      newtime0 == [ZeroTm EXCEPT !.tm_isdst = time0.tm_isdst]
      dt1 == check_time_sanity(minlen, buffer, st.dt_res)
      err0 == IF sanity_ok(dt1) THEN 0 ELSE 1
      mc == IF err0 = 0 THEN (IF st.minute_count + 1 = 60 THEN 0 ELSE st.minute_count + 1) ELSE st.minute_count
      adv == increase_old_time(init_min, acc, st.acc_minlen_partial, time0, dt1)
  IN  [err0 |-> err0, mc |-> mc, adv |-> adv, cb |-> calc_before_century(init_min, err0, adv.increase, buffer, adv.time, newtime0, dt1)]

\* decode_time() from the call of century_offset() on, with centofs the value
\* it returned.  handle_leap_second() and handle_dst() are compiled out
\* (#if 0).  The result holds the returned DT_result (dt), the updated time
\* and statics, and the locals of the call: the time after the advance
\* (advanced), the candidate (newtime), errflags and increase, whether
\* stamp_date_time() took the candidate over (committed) and what the four
\* getpar() calls returned (par).
decode_time(init_min, buffer, st, b, centofs) ==
  LET cd == calculate_date_time(init_min, b.err0, b.adv.increase, buffer, b.adv.time, centofs, b.cb)
  IN  [dt |-> cd.dt, time |-> stamp_date_time(cd.errflags, cd.newtime, b.adv.time, cd.dt), advanced |-> b.adv.time, newtime |-> cd.newtime, errflags |-> cd.errflags, increase |-> b.adv.increase,
       committed |-> commit_ok(cd.errflags, cd.dt), par |-> <<getpar(buffer, 17, 24, 54), getpar(buffer, 25, 35, 55), getpar(buffer, 36, 38, 56), getpar(buffer, 39, 51, 57)>>,
       st |-> [dt_res |-> cd.dt, minute_count |-> b.mc, dst_count |-> st.dst_count, acc_minlen_partial |-> b.adv.partial, olderr |-> cd.errflags # 0]]

DecoderStaticsInit == [dt_res |-> DtResInit, minute_count |-> 0, dst_count |-> 0, acc_minlen_partial |-> 0, olderr |-> FALSE]


(***************************************************************************)
(* Transmitted minutes: the symbols of one minute for given field values.  *)
(* A field is given as its packed BCD number (tens * 16 + units), so that   *)
(* digits above 9 can be sent too.                                         *)
(***************************************************************************)
Bcd(v) == (v \div 10) * 16 + (v % 10)

Pow2(n) == IF n = 0 THEN 1 ELSE IF n = 1 THEN 2 ELSE IF n = 2 THEN 4 ELSE IF n = 3 THEN 8 ELSE IF n = 4 THEN 16 ELSE IF n = 5 THEN 32 ELSE IF n = 6 THEN 64 ELSE 128

FieldBit(raw, stop, i) == (raw \div Pow2(stop - i)) % 2

\* The A bits of a minute: year 17..24, month 25..29, day 30..35, day of the
\* week 36..38, hour 39..44, minute 45..51, and the 01111110 pattern at 52..59.
ABit(tx, i) ==
  IF i \in 17..24 THEN FieldBit(tx.year, 24, i)
  ELSE IF i \in 25..29 THEN FieldBit(tx.mon, 29, i)
  ELSE IF i \in 30..35 THEN FieldBit(tx.mday, 35, i)
  ELSE IF i \in 36..38 THEN FieldBit(tx.wday, 38, i)
  ELSE IF i \in 39..44 THEN FieldBit(tx.hour, 44, i)
  ELSE IF i \in 45..51 THEN FieldBit(tx.min, 51, i)
  ELSE IF i \in 53..58 THEN 1
  ELSE 0

RECURSIVE SumTx(_, _, _)
SumTx(tx, start, stop) == IF start > stop THEN 0 ELSE ABit(tx, start) + SumTx(tx, start + 1, stop)

\* The B bits 54..57 make the number of ones of each group odd.
BBit(tx, i) ==
  IF i = 54 THEN 1 - (SumTx(tx, 17, 24) % 2)
  ELSE IF i = 55 THEN 1 - (SumTx(tx, 25, 35) % 2)
  ELSE IF i = 56 THEN 1 - (SumTx(tx, 36, 38) % 2)
  ELSE IF i = 57 THEN 1 - (SumTx(tx, 39, 51) % 2)
  ELSE 0

Symbol(tx, i) == IF i = 0 THEN 4 ELSE ABit(tx, i) + 2 * BBit(tx, i)

EncodeMinute(tx) == [i \in 0..(BUFLEN - 1) |-> Symbol(tx, i)]

MkTx(ye, mo, md, wd, ho, mi) == [year |-> Bcd(ye), mon |-> Bcd(mo), mday |-> Bcd(md), wday |-> wd, hour |-> Bcd(ho), min |-> Bcd(mi)]

\* The B bit of symbol i inverted.
FlipB(buf, i) == [buf EXCEPT ![i] = IF @ >= 2 THEN @ - 2 ELSE @ + 2]

(***************************************************************************)
(* State.                                                                  *)
(***************************************************************************)
VARIABLES
  mode,             \* "live", "file": which get_bit the main loop was given; "call" in SpecDecode, "sampler" in SpecSampler, "pulses" in SpecPulses
  src,              \* the signal or log still to come
  peek,             \* file input: the character skip_invalid() returns next
  bitpos,           \* input.c: static int bitpos
  dec_bp,           \* input.c: static unsigned dec_bp
  buffer,           \* input.c: static int buffer[BUFLEN]
  gb_res,           \* input.c: static struct GB_result gb_res
  acc_minlen,       \* input.c: static unsigned acc_minlen
  bit_t,            \* input.c: bit.t
  read_acc_minlen,  \* get_bit_file(): static bool read_acc_minlen
  pc,               \* where mainloop() stands
  bit,              \* mainloop(): struct GB_result bit
  minlen,           \* mainloop(): int minlen
  ml_bitpos,        \* mainloop(): int bitpos
  old_bitpos,       \* mainloop(): int old_bitpos
  init_min,         \* mainloop(): unsigned init_min
  curtime,          \* mainloop(): struct tm curtime
  mlr,              \* mainloop(): struct ML_result mlr
  was_toolong,      \* mainloop(): bool was_toolong
  hooks,            \* which of the optional callbacks are not NULL
  dec_st,           \* decode_time.c: the statics
  call,             \* the last call of decode_time(): arguments, locals, result
  obs,              \* what the last get_bit() and next_bit() did
  realfreq,         \* input.c: bit.realfreq
  init_bit,         \* get_bit_live(): static int init_bit
  logfile,          \* input.c: static FILE *logfile: "null", "open", or "closed" (a pointer to a closed FILE)
  flush_thread,     \* where flush_logfile() stands; "none" when the thread was not created
  log,              \* live input: the characters written to the log
  rec,              \* live input: acc_minlen and buffer handed to each decode_time() call
  tlow,             \* input.c: bit.tlow
  filter_y,         \* collect_pulses(): long long y, the output of the low-pass filter
  stv,              \* collect_pulses(): unsigned stv, the state of the Schmitt trigger
  adj_freq_set,     \* get_bit_live(): bool adj_freq
  filemode,         \* input.c: static unsigned filemode
  fd,               \* input.c: static int fd: "zero", "minus1", "open" (a descriptor of the process), "stale" (the number of a closed descriptor)
  bit_signal,       \* input.c: bit.signal: "null", "allocated", or "freed" (a pointer to a freed block)
  released          \* how often close(), fclose() and free() were called on the descriptor, FILE and block last acquired

\* The variables of the sampler and of the log.
io_vars == <<realfreq, init_bit, logfile, flush_thread, log, rec>>

\* The variables of collect_pulses().
pulse_vars == <<tlow, filter_y, stv, adj_freq_set>>

\* The resources that cleanup() releases, besides logfile.
res_vars == <<filemode, fd, bit_signal, released>>

vars == <<mode, src, peek, bitpos, dec_bp, buffer, gb_res, acc_minlen, bit_t, read_acc_minlen, pc, bit, minlen, ml_bitpos, old_bitpos, init_min, curtime, mlr, was_toolong, hooks, dec_st, call, obs, realfreq, init_bit, logfile, flush_thread, log, rec, tlow, filter_y, stv, adj_freq_set, filemode, fd, bit_signal, released>>

\* hw.freq, the samples per second of the configuration: an even number
\* from 10 to 120000.
HwFreq == 10

\* The output of the low-pass filter for a signal that stays high, and the
\* value y starts from.
LowpassHigh == 1000000000

\* bit.realfreq as get_bit_live() sets it while init_bit is 2, and as
\* reset_frequency() sets it.
NominalRealfreq == HwFreq * 1000000

GbResInit == [marker |-> "emark_none", bitval |-> "ebv_none", hwstat |-> "ehw_ok", bad_io |-> FALSE, skip |-> FALSE, done |-> FALSE]

MlrInit == [settime |-> FALSE, settime_result |-> "esc_unset", quit |-> FALSE]

CallInit == [n |-> 0, init_min |-> 0, minlen |-> 0, acc |-> 0, buffer |-> [i \in 0..(BUFLEN - 1) |-> 0], before |-> ZeroTm, advanced |-> ZeroTm, newtime |-> ZeroTm, errflags |-> 0, increase |-> 0, centofs |-> 0, marker |-> "emark_none", committed |-> FALSE, par |-> <<FALSE, FALSE, FALSE, FALSE>>, dt |-> DtResInit, settime |-> FALSE, setclock |-> "not_asked"]

ObsInit ==
  [stored |-> -1, since |-> "start", first_at |-> -1, nbits |-> 0, toolong |-> FALSE, after_toolong |-> FALSE, decoded |-> FALSE,
   marker_after_toolong |-> FALSE, calls |-> 0, pending |-> "emark_none", returned |-> "emark_none", at61 |-> FALSE, after_dec |-> 0, bitpos_after |-> 0, cleanups |-> 0, flushed_closed |-> FALSE,
   step |-> "none", ch |-> "none", a_n |-> -1, acc_before |-> 0, log_before |-> 0]

\* The calls of decode_time() on the given arguments and statics, one for
\* every value that century_offset() may return: the time and the statics
\* after the call, and the record of the call; cl is the record before it.
DecodeCalls(im, ml, acc, buf, ct, st, cl, marker) ==
  LET b == decode_time_begin(im, ml, acc, buf, ct, st)
  IN  { LET r == decode_time(im, buf, st, b, centofs)
        IN  [curtime |-> r.time, dec_st |-> r.st,
             call |-> [n |-> cl.n + 1, init_min |-> im, minlen |-> ml, acc |-> acc, buffer |-> buf, before |-> ct, advanced |-> r.advanced, newtime |-> r.newtime,
                       errflags |-> r.errflags, increase |-> r.increase, centofs |-> centofs, marker |-> marker, committed |-> r.committed, par |-> r.par, dt |-> r.dt, settime |-> FALSE, setclock |-> "not_asked"]]
        : centofs \in century_offset(b.cb.newtime) }

(***************************************************************************)
(* The input of a run: the seconds the receiver hears, or the characters   *)
(* of the log that is replayed.  A character is a record: ch is the        *)
(* character ("nl" a line end, "eof" the end of the file) and n the number *)
(* that follows an "a" (-1 when no number follows).                        *)
(***************************************************************************)
\* Minute markers sent in a run.
MaxMinutes == 3

\* The second of its minute at which the reception starts.
StartSec == 57

\* Irregular events of a run: reception faults, damaged log records, keys.
MaxFaults == 1

\* The seconds of a minute at which an irregular event may happen (60 is the
\* second of the next minute marker).
FaultSecs == {2, 59, 60}

Tok(ch, n) == [ch |-> ch, n |-> n]

DigitCh == <<"1", "2", "3", "4">>

CharOf(v) == IF v = 0 THEN "0" ELSE DigitCh[v]

CharVal(ch) == CASE ch = "0" -> 0 [] ch = "1" -> 1 [] ch = "2" -> 2 [] ch = "3" -> 3 [] ch = "4" -> 4

\* The minutes sent: 2019-03-15, 12:35 and the minutes after it.
Templates == [m \in 0..MaxMinutes |-> EncodeMinute(MkTx(19, 3, 15, 5, 12, 35 + m))]

\* What get_bit_live() and append_logfile() write: "\n--new log--\n\n" at the
\* start and "a<ms>\n" after a minute marker ("log"); the same log read from
\* the middle of such a record ("tail"); logs with a line per minute and no
\* a<ms> ("lines") and with no line ends ("bare"); "live" is the radio.
FileFormats == {"log", "tail", "lines", "bare"}

HeaderOf(fmt) ==
  CASE fmt = "log" -> <<Tok("nl", 0), Tok("nl", 0), Tok("nl", 0)>>
    [] fmt = "tail" -> <<Tok("a", 60000), Tok("nl", 0)>>
    [] OTHER -> <<>>

TrailerOf(fmt, ms) ==
  CASE fmt \in {"log", "tail"} -> <<Tok("a", ms), Tok("nl", 0)>>
    [] fmt = "lines" -> <<Tok("nl", 0)>>
    [] OTHER -> <<>>

SrcInit(fmt) == [fmt |-> fmt, min |-> 0, sec |-> StartSec, faults |-> 0, trailer |-> HeaderOf(fmt), ms |-> 0]

\* The minute marker, followed in a log by what the format puts after it.
MarkerTok(s, nextmin, nextsec) ==
  [tok |-> Tok("4", 0), src |-> [s EXCEPT !.min = nextmin, !.sec = nextsec, !.ms = 0, !.trailer = TrailerOf(s.fmt, s.ms + 1000)]]

\* The regular next character; the run ends with the last minute marker.
RegularToks(s) ==
  IF s.trailer # <<>> THEN {[tok |-> Head(s.trailer), src |-> [s EXCEPT !.trailer = Tail(@)]]}
  ELSE IF s.min >= MaxMinutes THEN (IF s.fmt # "live" THEN {[tok |-> Tok("eof", 0), src |-> s]} ELSE {})
  ELSE IF s.sec <= 59 THEN {[tok |-> Tok(CharOf(Templates[s.min][s.sec]), 0), src |-> [s EXCEPT !.sec = @ + 1, !.ms = @ + 1000]]}
  ELSE {MarkerTok(s, s.min + 1, 1)}

\* A second that was not received as sent: an unknown bit, a hardware fault, a
\* read fault; at second 60 the minute marker is lost that way.
ErrorChars == {"_", "x", "r", "#", "*"}

\* What a log may hold and the radio cannot deliver: a character 5, a stray
\* line end, a stray a<ms>, an "a" without a number at the end of the file,
\* an early end of the file.
FileOnlyToks(f) ==
  {[tok |-> t, src |-> f] : t \in {Tok("5", 0), Tok("nl", 0), Tok("a", 30000)}}
  \cup {[tok |-> Tok("a", -1), src |-> [f EXCEPT !.min = MaxMinutes, !.sec = 60]], [tok |-> Tok("eof", 0), src |-> f]}

FaultToks(s) ==
  IF s.faults >= MaxFaults \/ s.trailer # <<>> \/ s.sec \notin FaultSecs \/ s.min >= MaxMinutes THEN {}
  ELSE LET f == [s EXCEPT !.faults = @ + 1]
           nxt == IF s.sec <= 59 THEN [f EXCEPT !.sec = @ + 1, !.ms = @ + 1000] ELSE [f EXCEPT !.min = @ + 1, !.sec = 1, !.ms = @ + 1000]
       IN  {[tok |-> Tok(ch, 0), src |-> nxt] : ch \in ErrorChars}
           \cup {[tok |-> Tok(ch, 0), src |-> [f EXCEPT !.ms = @ + 1000]] : ch \in {"_", "0"}}
           \cup (IF s.sec <= 59 THEN {MarkerTok(f, s.min, s.sec + 1)} ELSE {})
           \cup (IF s.fmt # "live" THEN FileOnlyToks(f) ELSE {})

NextToks(s) == RegularToks(s) \cup FaultToks(s)

(***************************************************************************)
(* input.c: get_bit_live(), get_bit_file(), next_bit().  The sampling of    *)
(* the pulses, the cutoff and the log written in live mode are not part of *)
(* the model: a second of the radio arrives classified, with its nominal   *)
(* length.                                                                 *)
(***************************************************************************)
set_new_state(g) ==
  [g EXCEPT !.bad_io = FALSE, !.bitval = "ebv_none", !.marker = IF @ \notin {"emark_toolong", "emark_late"} THEN "emark_none" ELSE @,
            !.hwstat = "ehw_ok", !.done = FALSE, !.skip = FALSE]

BitChars == {"0", "1", "2", "3", "4"}

BitvalOf(ch) == CASE ch = "0" -> "ebv_00" [] ch = "1" -> "ebv_10" [] ch = "2" -> "ebv_01" [] ch = "3" -> "ebv_11" [] ch = "4" -> "ebv_bom"

HwstatOf(ch) == CASE ch = "x" -> "ehw_transmit" [] ch = "r" -> "ehw_receive" [] ch = "#" -> "ehw_random"

\* bit.t after the switch of get_bit_file(); the characters 5 and \n leave it.
file_bit_t(inch, bt) ==
  CASE inch \in BitChars \cup {"_"} -> 1000
    [] inch \in {"x", "r", "#"} -> 1500
    [] inch \in {"*", "a"} -> 0
    [] OTHER -> bt

\* The switch of get_bit_file() on the character read, and the addition to
\* acc_minlen after it; g is gb_res after set_new_state().  acc_minlen stays
\* far below 2^32 in the runs of the model, so the addition does not wrap.
file_switch(g, tok, bt, acc, ram) ==
  LET inch == tok.ch
      g1 == CASE inch \in BitChars ->
                   [g EXCEPT !.bitval = BitvalOf(inch),
                             !.marker = IF inch # "4" THEN @ ELSE IF @ = "emark_none" THEN "emark_minute" ELSE IF @ = "emark_toolong" THEN "emark_late" ELSE @]
              [] inch \in {"x", "r", "#"} -> [g EXCEPT !.hwstat = HwstatOf(inch)]
              [] inch = "*" -> [g EXCEPT !.bad_io = TRUE]
              [] inch = "_" -> [g EXCEPT !.bitval = "ebv_none"]
              [] inch = "a" -> [g EXCEPT !.skip = TRUE, !.done = (tok.n = -1)]
              [] OTHER -> g
      bt1 == file_bit_t(inch, bt)
      acc1 == IF inch = "a" /\ tok.n # -1 THEN tok.n ELSE acc
      ram1 == IF inch = "a" THEN ~g1.done ELSE ram
  IN  [g |-> g1, bit_t |-> bt1, acc_minlen |-> IF ram1 THEN acc1 ELSE acc1 + bt1, read_acc_minlen |-> ram1]

\* A look-ahead of get_bit_file() that forgets to test bitpos.
lookahead_dec_bp_any(dbp, bp, oldinch, inch) ==
  IF dbp = 0 /\ oldinch # "nl" /\ inch \in {"nl", "a"} THEN 1 ELSE dbp

\* dec_bp after the look-ahead of get_bit_file() at a character that is not
\* the end of the file.
lookahead_dec_bp(dbp, bp, oldinch, inch) ==
  IF dbp = 0 /\ bp > 0 /\ oldinch # "nl" /\ inch \in {"nl", "a"} THEN 1 ELSE dbp

\* The character get_bit_live() writes to the log for a second: its local
\* outch starts as '?' and is set where the second is classified, which is
\* skipped after a read fault and with a hardware status other than ok (the
\* '*', 'r', 'x', '#' of collect_pulses() go to a local of that function).
outch_of(ch) == IF ch \in {"0", "1", "2", "3", "4", "_"} THEN ch ELSE "?"

\* The log after get_bit_live() wrote outch and, at a minute marker,
\* "a<acc_minlen>\n".
log_written(lg, outch, g, acc) ==
  lg \o <<Tok(outch, 0)>> \o (IF g.marker \in {"emark_minute", "emark_late"} THEN <<Tok("a", acc), Tok("nl", 0)>> ELSE <<>>)

\* skip_invalid() on a whole log: the characters get_bit_file() gets to see.
skip_invalid(lg) == SelectSeq(lg, LAMBDA t : t.ch \in {"0", "1", "2", "3", "4", "5", "nl", "x", "r", "#", "*", "_", "a"})

\* get_bit_live() on a second classified as ch: gb_res, bitpos, buffer,
\* acc_minlen after it.
get_bit_live(g, ch, bp, buf, acc) ==
  LET g1 == CASE ch \in {"0", "1", "2", "3"} -> [g EXCEPT !.bitval = BitvalOf(ch)]
              [] ch = "4" -> [g EXCEPT !.marker = "emark_minute", !.bitval = "ebv_bom"]
              [] ch \in {"x", "r", "#"} -> [g EXCEPT !.hwstat = HwstatOf(ch)]
              [] ch = "*" -> [g EXCEPT !.bad_io = TRUE]
              [] OTHER -> g
      bp1 == IF ch = "4" THEN 0 ELSE bp
  IN  [g |-> g1, bitpos |-> bp1,
       buffer |-> IF ch \in BitChars THEN [buf EXCEPT ![bp1] = CharVal(ch)] ELSE buf,
       bit_t |-> file_bit_t(ch, 0),
       acc_minlen |-> acc + file_bit_t(ch, 0)]

\* A next_bit() that leaves a pending too_long or late marker as it is.
next_bit_keep(g, bp, dbp) ==
  LET bp1 == IF dbp = 1 THEN bp - 1 ELSE bp
      ismark == g.marker \in {"emark_minute", "emark_late"}
      bp2 == IF ismark THEN 1 ELSE IF ~g.skip THEN bp1 + 1 ELSE bp1
  IN  [g |-> IF bp2 = BUFLEN THEN [g EXCEPT !.marker = "emark_toolong"] ELSE g,
       bitpos |-> IF bp2 = BUFLEN THEN 0 ELSE bp2, dec_bp |-> IF ismark THEN 0 ELSE IF dbp = 1 THEN 2 ELSE dbp,
       after_dec |-> bp1, at61 |-> bp2 = BUFLEN]

\* next_bit(): gb_res, bitpos and dec_bp after it; after_dec is bitpos after
\* the roll-back, at61 tells that bitpos reached BUFLEN.
next_bit(g, bp, dbp) ==
  LET bp1 == IF dbp = 1 THEN bp - 1 ELSE bp
      dbp1 == IF dbp = 1 THEN 2 ELSE dbp
      ismark == g.marker \in {"emark_minute", "emark_late"}
      bp2 == IF ismark THEN 1 ELSE IF ~g.skip THEN bp1 + 1 ELSE bp1
      dbp2 == IF ismark THEN 0 ELSE dbp1
  IN  IF bp2 = BUFLEN
      THEN [g |-> [g EXCEPT !.marker = "emark_toolong"], bitpos |-> 0, dec_bp |-> dbp2, after_dec |-> bp1, at61 |-> TRUE]
      ELSE [g |-> [g EXCEPT !.marker = IF @ = "emark_toolong" THEN "emark_none" ELSE IF @ = "emark_late" THEN "emark_minute" ELSE @],
            bitpos |-> bp2, dec_bp |-> dbp2, after_dec |-> bp1, at61 |-> FALSE]

(***************************************************************************)
(* mainloop.c: mainloop() and check_handle_new_minute().  The display      *)
(* callbacks only print.  The callbacks that return an ML_result are given *)
(* (hooks) or NULL; what they do is an input: a key may ask to quit or to  *)
(* set the clock.                                                          *)
(***************************************************************************)
\* A setclock_ok() that does not wait for the decoder to settle.
setclock_ok_any_init(im, dt, b) ==
  /\ {dt.minute_status, dt.hour_status, dt.mday_status, dt.wday_status, dt.month_status, dt.year_status} = {"eval_ok"}
  /\ dt.minute_length = "emin_ok"
  /\ b.marker = "emark_minute"

\* setclock_ok() of setclock.c.
setclock_ok(im, dt, b) ==
  /\ im = 0
  /\ {dt.minute_status, dt.hour_status, dt.mday_status, dt.wday_status, dt.month_status, dt.year_status} = {"eval_ok"}
  /\ dt.minute_length = "emin_ok"
  /\ b.marker = "emark_minute"

\* What setclock() of setclock.c may return.
setclock_results == {"esc_ok", "esc_fail"}

\* An ML_result a callback may return, with the events of the run counted:
\* the one it was given, or one with quit set.
hook_quit(m, fl, can) ==
  {[mlr |-> m, faults |-> fl]} \cup (IF can /\ fl < MaxFaults THEN {[mlr |-> [m EXCEPT !.quit = TRUE], faults |-> fl + 1]} ELSE {})

\* process_input() may also ask to set the clock.
hook_input(m, fl, can) ==
  hook_quit(m, fl, can) \cup (IF can /\ fl < MaxFaults /\ ~m.settime THEN {[mlr |-> [m EXCEPT !.settime = TRUE], faults |-> fl + 1]} ELSE {})

\* A loop that is left only on request.
loop_left_on_quit(done, quit) == quit

\* The test that ends the loop, after process_input() and at the end of an
\* iteration.
loop_left(done, quit) == done \/ quit

\* mainloop() from the return of get_bit() to the call of next_bit(): g is
\* the result of get_bit(), bp is get_bitpos(), fl the events so far.
after_get_bit(g, bp, fl) ==
  IF ~hooks THEN {[mlr |-> mlr, faults |-> fl, pc |-> "next_bit", ml_bitpos |-> bp]}
  ELSE UNION { IF loop_left(g.done, h.mlr.quit)
               THEN {[mlr |-> h.mlr, faults |-> h.faults, pc |-> "cleanup", ml_bitpos |-> ml_bitpos]}
               ELSE {[mlr |-> q.mlr, faults |-> q.faults, pc |-> "next_bit", ml_bitpos |-> bp] : q \in hook_quit(h.mlr, h.faults, bp \in FaultSecs)}
               : h \in hook_input(mlr, fl, bp \in FaultSecs) }

\* A reset_acc_minlen() that leaves the value.
reset_acc_minlen_keep(acc) == acc

\* reset_acc_minlen().
reset_acc_minlen(acc) == 0

\* check_handle_new_minute() on s, the variables it may change: mlr, curtime,
\* init_min, acc_minlen, the statics of decode_time.c, the record of the last
\* decode_time() call, the events so far.  The record notes mlr.settime and
\* whether setclock() was called for the minute, refused, or not asked for.
check_handle_new_minute(s, b, bp, ml, wt, buf) ==
  IF ~(b.marker \in {"emark_minute", "emark_late"} /\ ~wt) THEN {s}
  ELSE UNION { UNION { LET s1 == [s EXCEPT !.curtime = d.curtime, !.dec_st = d.dec_st, !.acc_minlen = reset_acc_minlen(@),
                                           !.call = [d.call EXCEPT !.settime = s.mlr.settime, !.setclock = IF ~s.mlr.settime THEN "not_asked" ELSE IF res = "esc_unsafe" THEN "refused" ELSE "called"],
                                           !.init_min = IF @ > 0 THEN @ - 1 ELSE @, !.mlr = [@ EXCEPT !.settime_result = res]]
                       IN  IF s.mlr.settime /\ hooks
                           THEN {[s1 EXCEPT !.mlr = q.mlr, !.faults = q.faults] : q \in hook_quit(s1.mlr, s1.faults, TRUE)}
                           ELSE {s1}
                       : res \in IF ~s.mlr.settime THEN {s.mlr.settime_result}
                                 ELSE IF setclock_ok(s.init_min, d.call.dt, b) THEN setclock_results ELSE {"esc_unsafe"} }
               : d \in DecodeCalls(s.init_min, ml, s.acc_minlen, buf, s.curtime, s.dec_st, s.call, b.marker) }

\* A main loop that does not mark the minute after a too_long.
minlen_after_keep(marker, obp, ml) == IF marker = "emark_minute" THEN obp ELSE ml

\* A main loop that takes the number of symbols of the minute, the marker
\* included, for its length.
minlen_after_count(marker, obp, ml) ==
  IF marker = "emark_minute" THEN obp + 1 ELSE IF marker \in {"emark_toolong", "emark_late"} THEN -1 ELSE ml

\* minlen after the marker returned by next_bit() is looked at.
minlen_after(marker, obp, ml) ==
  IF marker = "emark_minute" THEN obp ELSE IF marker \in {"emark_toolong", "emark_late"} THEN -1 ELSE ml

\* A main loop that forgets that the pending minute was handled already.
was_toolong_kept(ml, wt) == wt

\* was_toolong at the second check_handle_new_minute() call of an iteration:
\* set when the first call was made (minlen == -1).
was_toolong_after(ml, wt) == (ml = -1) \/ wt

\* What is noted of a get_bit() call that consumed the character ch with
\* bitpos at bp: where a bit symbol 0..3 was stored, and whether it is the
\* first one since the last minute marker with only a<ms> and line ends
\* between; the character, the number n of an a<ms> record (-1 without one),
\* acc_minlen and the length of the written log before the call.
ObsGetBit(ch, bp, n) ==
  [obs EXCEPT !.step = "get_bit", !.ch = ch, !.a_n = n, !.acc_before = acc_minlen, !.log_before = Len(log),
              !.stored = IF ch \in {"0", "1", "2", "3"} THEN bp ELSE -1,
              !.first_at = IF ch \in {"0", "1", "2", "3"} /\ obs.since = "marker" THEN bp ELSE @,
              !.since = IF ch \in {"a", "nl", "eof"} THEN @ ELSE IF ch \in {"0", "1", "2", "3"} THEN (IF @ = "marker" THEN "data" ELSE @) ELSE "other"]

(***************************************************************************)
(* The resources of input.c and cleanup().                                 *)
(***************************************************************************)
\* The counts of released stop at this value.
MaxReleases == 2

ReleasedInit == [fd |-> 0, logfile |-> 0, bit_signal |-> 0]

\* One more call of close(), fclose() or free() on what was last acquired.
count_release(rel, what) == [rel EXCEPT ![what] = IF @ < MaxReleases THEN @ + 1 ELSE @]

\* The statics that cleanup() works on, as one record; undefined is set when
\* fclose() or free() was given a pointer to what was released before.
ResOf == [fd |-> fd, logfile |-> logfile, bit_signal |-> bit_signal, released |-> released, undefined |-> FALSE]

\* cleanup(): if (fd > 0 && close(fd) == -1) perror(...); fd = 0;
\* close() is called for every positive fd, the number of a descriptor that
\* was closed before included, and releases the descriptor whatever it
\* returns.
cleanup_fd(r) ==
  [r EXCEPT !.fd = "zero", !.released = IF r.fd \in {"open", "stale"} THEN count_release(@, "fd") ELSE @]

\* cleanup(): if (logfile != NULL) fclose(logfile): the FILE is gone after the
\* call, whatever it returns.
cleanup_fclose(r) ==
  IF r.logfile = "null" THEN r
  ELSE [r EXCEPT !.logfile = "closed", !.released = count_release(@, "logfile"), !.undefined = @ \/ r.logfile = "closed"]

\* cleanup(): logfile = NULL, in the else branch of fclose(logfile) == EOF.
cleanup_logfile_null(r, fclose_ok) ==
  IF r.logfile = "closed" /\ fclose_ok THEN [r EXCEPT !.logfile = "null"] ELSE r

\* cleanup(): free(bit.signal); the pointer keeps its value.
cleanup_free(r) ==
  IF r.bit_signal = "null" THEN r
  ELSE [r EXCEPT !.bit_signal = "freed", !.released = count_release(@, "bit_signal"), !.undefined = @ \/ r.bit_signal = "freed"]

\* cleanup() as a whole; fclose_ok is the result of fclose().
cleanup(r, fclose_ok) == cleanup_free(cleanup_logfile_null(cleanup_fclose(cleanup_fd(r)), fclose_ok))

\* What is noted of a next_bit() call and of the rest of the iteration.
ObsNextBit(g, nb, decoded) ==
  [obs EXCEPT !.step = "next_bit", !.acc_before = acc_minlen,
              !.calls = 1, !.pending = g.marker, !.returned = nb.g.marker, !.at61 = nb.at61, !.after_dec = nb.after_dec, !.bitpos_after = nb.bitpos,
              !.since = IF nb.g.marker = "emark_minute" THEN "marker" ELSE @,
              !.first_at = IF nb.g.marker = "emark_minute" THEN -1 ELSE @,
              !.nbits = IF nb.g.marker = "emark_minute" THEN 1 ELSE IF g.skip \/ @ > BUFLEN THEN @ ELSE @ + 1,
              !.toolong = IF nb.g.marker = "emark_minute" THEN FALSE ELSE (@ \/ nb.g.marker = "emark_toolong"),
              !.decoded = decoded,
              !.after_toolong = IF decoded THEN obs.toolong ELSE @,
              !.marker_after_toolong = (nb.g.marker = "emark_minute" /\ obs.toolong)]

Init ==
  /\ mode \in {"live", "file"}
  /\ \E fmt \in (IF mode = "live" THEN {"live"} ELSE FileFormats) :
       IF mode = "live" THEN src = SrcInit(fmt) /\ peek = Tok("eof", 0)
       ELSE \E nx \in NextToks(SrcInit(fmt)) : src = nx.src /\ peek = nx.tok
  /\ bitpos = 0
  /\ dec_bp = 0
  /\ buffer = [i \in 0..(BUFLEN - 1) |-> 0]
  /\ gb_res = GbResInit
  /\ acc_minlen = 0
  /\ bit_t = 0
  /\ read_acc_minlen = FALSE
  /\ pc = "get_bit"
  /\ bit = GbResInit
  /\ minlen = 0
  /\ ml_bitpos = 0
  /\ old_bitpos = 0
  /\ init_min = 2
  /\ curtime = ZeroTm
  /\ mlr = MlrInit
  /\ was_toolong = FALSE
  /\ hooks \in BOOLEAN
  /\ dec_st = DecoderStaticsInit
  /\ call = CallInit
  /\ obs = ObsInit
  /\ realfreq = NominalRealfreq
  /\ init_bit = 2
  /\ logfile \in (IF mode = "live" THEN {"null", "open"} ELSE {"open"})
  /\ flush_thread = (IF mode = "live" /\ logfile = "open" THEN "fflush" ELSE "none")
  /\ log = (IF mode = "live" /\ logfile = "open" THEN HeaderOf("log") ELSE <<>>)
  /\ rec = <<>>
  /\ tlow = 0 /\ filter_y = LowpassHigh /\ stv = 1 /\ adj_freq_set = TRUE
  /\ filemode = (IF mode = "live" THEN 1 ELSE 2)
  /\ fd = (IF mode = "live" THEN "open" ELSE "zero")
  /\ bit_signal = (IF mode = "live" THEN "allocated" ELSE "null")
  /\ released = ReleasedInit

\* get_bit_file(), and mainloop() up to the call of next_bit().
GetBitFile ==
  /\ pc = "get_bit" /\ mode = "file"
  /\ \E nx \in (IF peek.ch = "eof" THEN {[tok |-> peek, src |-> src]} ELSE NextToks(src)) :
       \E r \in {file_switch(set_new_state(gb_res), peek, bit_t, acc_minlen, read_acc_minlen)} :
         \E g \in {IF peek.ch = "eof" THEN [set_new_state(gb_res) EXCEPT !.done = TRUE] ELSE IF nx.tok.ch = "eof" THEN [r.g EXCEPT !.done = TRUE] ELSE r.g} :
           \E a \in after_get_bit(g, bitpos, nx.src.faults) :
             /\ gb_res' = g
             /\ bit' = g
             /\ buffer' = IF peek.ch \in BitChars THEN [buffer EXCEPT ![bitpos] = CharVal(peek.ch)] ELSE buffer
             /\ IF peek.ch = "eof"
                THEN UNCHANGED <<bit_t, acc_minlen, read_acc_minlen, dec_bp>>
                ELSE /\ bit_t' = r.bit_t
                     /\ acc_minlen' = r.acc_minlen
                     /\ read_acc_minlen' = r.read_acc_minlen
                     /\ dec_bp' = IF nx.tok.ch = "eof" THEN dec_bp ELSE lookahead_dec_bp(dec_bp, bitpos, peek.ch, nx.tok.ch)
             /\ peek' = nx.tok
             /\ src' = [nx.src EXCEPT !.faults = a.faults]
             /\ mlr' = a.mlr
             /\ pc' = a.pc
             /\ ml_bitpos' = a.ml_bitpos
             /\ obs' = ObsGetBit(peek.ch, bitpos, IF peek.ch = "a" THEN peek.n ELSE -1)
  /\ UNCHANGED <<mode, bitpos, minlen, old_bitpos, init_min, curtime, was_toolong, hooks, dec_st, call>>
  /\ UNCHANGED io_vars
  /\ UNCHANGED pulse_vars
  /\ UNCHANGED res_vars

\* get_bit_live(), and mainloop() up to the call of next_bit().
GetBitLive ==
  /\ pc = "get_bit" /\ mode = "live"
  /\ \E nx \in NextToks(src) :
       \E r \in {get_bit_live(set_new_state(gb_res), nx.tok.ch, bitpos, buffer, acc_minlen)} :
         \E a \in after_get_bit(r.g, r.bitpos, nx.src.faults) :
           /\ gb_res' = r.g
           /\ bit' = r.g
           /\ bitpos' = r.bitpos
           /\ buffer' = r.buffer
           /\ bit_t' = r.bit_t
           /\ acc_minlen' = r.acc_minlen
           /\ src' = [nx.src EXCEPT !.faults = a.faults]
           /\ mlr' = a.mlr
           /\ pc' = a.pc
           /\ ml_bitpos' = a.ml_bitpos
           /\ obs' = ObsGetBit(nx.tok.ch, r.bitpos, -1)
           /\ log' = IF logfile = "open" THEN log_written(log, outch_of(nx.tok.ch), r.g, r.acc_minlen) ELSE log
  /\ UNCHANGED <<mode, peek, dec_bp, read_acc_minlen, minlen, old_bitpos, init_min, curtime, was_toolong, hooks, dec_st, call>>
  /\ UNCHANGED <<realfreq, init_bit, logfile, flush_thread, rec>>
  /\ UNCHANGED pulse_vars
  /\ UNCHANGED res_vars

\* next_bit(), and mainloop() to the end of the iteration.
NextBit ==
  /\ pc = "next_bit"
  /\ \E nb \in {next_bit(gb_res, bitpos, dec_bp)} :
       \E s0 \in {[mlr |-> mlr, curtime |-> curtime, init_min |-> init_min, acc_minlen |-> acc_minlen, dec_st |-> dec_st, call |-> call, faults |-> src.faults]} :
         \E s1 \in (IF minlen = -1 THEN check_handle_new_minute(s0, nb.g, ml_bitpos, minlen, was_toolong, buffer) ELSE {s0}) :
           \E ml1 \in {minlen_after(nb.g.marker, old_bitpos, minlen)} :
             \E s2 \in check_handle_new_minute(s1, nb.g, ml_bitpos, ml1, was_toolong_after(minlen, was_toolong), buffer) :
               /\ gb_res' = nb.g
               /\ bit' = nb.g
               /\ bitpos' = nb.bitpos
               /\ dec_bp' = nb.dec_bp
               /\ minlen' = ml1
               /\ was_toolong' = FALSE
               /\ mlr' = s2.mlr
               /\ curtime' = s2.curtime
               /\ init_min' = s2.init_min
               /\ acc_minlen' = s2.acc_minlen
               /\ dec_st' = s2.dec_st
               /\ call' = s2.call
               /\ src' = [src EXCEPT !.faults = s2.faults]
               /\ pc' = IF loop_left(nb.g.done, s2.mlr.quit) THEN "cleanup" ELSE "get_bit"
               /\ old_bitpos' = IF loop_left(nb.g.done, s2.mlr.quit) THEN old_bitpos ELSE ml_bitpos
               /\ obs' = ObsNextBit(gb_res, nb, s2.call.n # call.n)
               /\ rec' = IF mode = "live" /\ s2.call.n # call.n THEN Append(rec, [acc |-> s2.call.acc, buffer |-> s2.call.buffer]) ELSE rec
  /\ UNCHANGED <<mode, peek, buffer, bit_t, read_acc_minlen, ml_bitpos, hooks>>
  /\ UNCHANGED <<realfreq, init_bit, logfile, flush_thread, log>>
  /\ UNCHANGED pulse_vars
  /\ UNCHANGED res_vars

\* mainloop() leaves the loop and calls cleanup(), which closes the device
\* and the log: after fclose() the pointer logfile refers to a closed FILE.
Cleanup ==
  /\ pc = "cleanup"
  /\ pc' = "cleanup_fclosed"
  /\ logfile' = IF logfile = "open" THEN "closed" ELSE logfile
  /\ obs' = [obs EXCEPT !.cleanups = @ + 1]
  /\ UNCHANGED <<mode, src, peek, bitpos, dec_bp, buffer, gb_res, acc_minlen, bit_t, read_acc_minlen, bit, minlen, ml_bitpos, old_bitpos, init_min, curtime, mlr, was_toolong, hooks, dec_st, call>>
  /\ UNCHANGED <<realfreq, init_bit, flush_thread, log, rec>>
  /\ UNCHANGED pulse_vars
  /\ \E r \in {cleanup_fclose(cleanup_fd(ResOf))} : fd' = r.fd /\ released' = r.released
  /\ UNCHANGED <<filemode, bit_signal>>

\* The rest of cleanup(): logfile becomes NULL unless fclose() returned EOF;
\* mainloop() returns.  Nothing stops or joins the thread of flush_logfile().
CleanupReturn ==
  /\ pc = "cleanup_fclosed"
  /\ pc' = "exit"
  /\ logfile' \in (IF logfile = "closed" THEN {"null", "closed"} ELSE {logfile})
  /\ UNCHANGED <<mode, src, peek, bitpos, dec_bp, buffer, gb_res, acc_minlen, bit_t, read_acc_minlen, bit, minlen, ml_bitpos, old_bitpos, init_min, curtime, mlr, was_toolong, hooks, dec_st, call, obs>>
  /\ UNCHANGED <<realfreq, init_bit, flush_thread, log, rec>>
  /\ UNCHANGED pulse_vars
  /\ \E r \in {cleanup_free(ResOf)} : bit_signal' = r.bit_signal /\ released' = r.released
  /\ UNCHANGED <<filemode, fd>>

\* The thread of flush_logfile(), created by append_logfile(): fflush(logfile)
\* and sleep(60) for ever, while the process lives.  fflush(NULL) flushes all
\* streams; fflush() of a closed FILE is undefined: it may pass unnoticed or
\* end the process.
FlushLogfile ==
  /\ flush_thread \in {"fflush", "sleep"}
  /\ pc \notin {"exit", "crashed"}
  /\ flush_thread' = IF flush_thread = "fflush" THEN "sleep" ELSE "fflush"
  /\ IF flush_thread = "fflush" /\ logfile = "closed"
     THEN obs' = [obs EXCEPT !.flushed_closed = TRUE] /\ pc' \in {pc, "crashed"}
     ELSE UNCHANGED <<obs, pc>>
  /\ UNCHANGED <<mode, src, peek, bitpos, dec_bp, buffer, gb_res, acc_minlen, bit_t, read_acc_minlen, bit, minlen, ml_bitpos, old_bitpos, init_min, curtime, mlr, was_toolong, hooks, dec_st, call>>
  /\ UNCHANGED <<realfreq, init_bit, logfile, log, rec>>
  /\ UNCHANGED pulse_vars
  /\ UNCHANGED res_vars

\* The log of a reception that is over (the signal of the run has ended, or
\* mainloop() has returned) is replayed: set_mode_file() opens it and
\* mainloop() is started on get_bit_file() with the callbacks of
\* nplpi-analyze, in a new process.  rec keeps what the reception handed to
\* decode_time().
Replay ==
  /\ mode = "live" /\ log # <<>>
  /\ pc = "exit" \/ (pc = "get_bit" /\ NextToks(src) = {})
  /\ mode' = "file"
  /\ \E toks \in {skip_invalid(log)} :
       /\ peek' = Head(toks)
       /\ src' = [fmt |-> "replay", min |-> MaxMinutes, sec |-> 60, faults |-> MaxFaults, trailer |-> Tail(toks), ms |-> 0]
  /\ bitpos' = 0
  /\ dec_bp' = 0
  /\ buffer' = [i \in 0..(BUFLEN - 1) |-> 0]
  /\ gb_res' = GbResInit
  /\ acc_minlen' = 0
  /\ bit_t' = 0
  /\ read_acc_minlen' = FALSE
  /\ pc' = "get_bit"
  /\ bit' = GbResInit
  /\ minlen' = 0
  /\ ml_bitpos' = 0
  /\ old_bitpos' = 0
  /\ init_min' = 2
  /\ curtime' = ZeroTm
  /\ mlr' = MlrInit
  /\ was_toolong' = FALSE
  /\ hooks' = FALSE
  /\ dec_st' = DecoderStaticsInit
  /\ call' = CallInit
  /\ obs' = ObsInit
  /\ logfile' = "open"
  /\ flush_thread' = "none"
  /\ log' = <<>>
  /\ UNCHANGED <<realfreq, init_bit, rec>>
  /\ UNCHANGED pulse_vars
  /\ filemode' = 2 /\ fd' = "zero" /\ bit_signal' = "null" /\ released' = ReleasedInit

Next == GetBitFile \/ GetBitLive \/ NextBit \/ Cleanup \/ CleanupReturn \/ FlushLogfile \/ Replay

Spec == Init /\ [][Next]_vars

\* mainloop() is at a point where its thread has a next step: inside the loop
\* or before cleanup(), and not waiting for a second that the radio of the
\* run no longer sends.
Running == pc \in {"get_bit", "next_bit", "cleanup", "cleanup_fclosed"} /\ (pc = "get_bit" /\ mode = "live" => NextToks(src) # {})

\* A step of the thread of mainloop(): each of its steps moves pc, and one
\* is possible exactly when Running holds.
MainThreadStep == Running /\ pc' \in {"get_bit", "next_bit", "cleanup", "cleanup_fclosed", "exit"}

\* mainloop() is one sequential thread that is not suspended for ever: a
\* step that can be taken is taken.
SpecLive == Init /\ [][Next]_vars /\ WF_pc(MainThreadStep)

(***************************************************************************)
(* SpecDecode: one call of decode_time() on arguments from bounded sets.   *)
(***************************************************************************)
\* 2019-03-15, a Friday, 12:34, and the minute sent during it.
T0 == MkTm(34, 12, 15, 3, 2019, 5, 0)

Tx1 == MkTx(19, 3, 15, 5, 12, 35)

\* 2019-12-31, a Tuesday, 23:59, and the minute sent during it.
T1 == MkTm(59, 23, 31, 12, 2019, 2, 0)

Tx2 == MkTx(20, 1, 1, 3, 0, 0)

\* 2019-03-17 is a Sunday: the minute sent on it carries the day of the week 0.
TxSunday == [Tx1 EXCEPT !.mday = Bcd(17), !.wday = 0]

\* Field values the decoder must reject or flag: digits above 9, values out of
\* range, the 30th of February, a day of the week that fits no century.
TxFaulty ==
  { [Tx1 EXCEPT !.year = 165], [Tx1 EXCEPT !.year = 10], [Tx1 EXCEPT !.mon = 13], [Tx1 EXCEPT !.mon = 0], [Tx1 EXCEPT !.mon = Bcd(4)],
    [Tx1 EXCEPT !.mday = 0], [Tx1 EXCEPT !.mday = Bcd(32)], [Tx1 EXCEPT !.mday = Bcd(16)], [Tx1 EXCEPT !.mon = Bcd(2), !.mday = Bcd(30)],
    [Tx1 EXCEPT !.wday = 7], [Tx1 EXCEPT !.wday = 0], [Tx1 EXCEPT !.wday = 6],
    [Tx1 EXCEPT !.hour = Bcd(24)], [Tx1 EXCEPT !.hour = Bcd(13)], [Tx1 EXCEPT !.min = Bcd(60)], [Tx1 EXCEPT !.min = Bcd(36)], [Tx1 EXCEPT !.min = 10] }

DecodeBuffers ==
  LET good == EncodeMinute(Tx1)
  IN  {EncodeMinute(tx) : tx \in {Tx1, Tx2, TxSunday} \cup TxFaulty}
      \cup {FlipB(good, i) : i \in 54..57} \cup {FlipB(EncodeMinute([Tx1 EXCEPT !.wday = 3]), 54)}
      \cup {FlipB(EncodeMinute([Tx1 EXCEPT !.mon = 13]), 55), FlipB(EncodeMinute([Tx1 EXCEPT !.year = 165]), 54), FlipB(EncodeMinute([Tx1 EXCEPT !.wday = 7]), 56), FlipB(EncodeMinute([Tx1 EXCEPT !.hour = Bcd(24)]), 57)}
      \cup {[good EXCEPT ![0] = 0], [good EXCEPT ![59] = 1], [good EXCEPT ![54] = 4], [good EXCEPT ![16] = 1]}

DecodeMinlens == {-1, 0, 58, 59, 60, 61, 62}

DecodeAccMinlens == {0, 30000, 59500, 60000, 120000}

DecodePartials == {0, 45000}

DecodeTimes == {ZeroTm, T0, T1}

InitDecode ==
  /\ mode = "call"
  /\ src = SrcInit("live")
  /\ peek = Tok("eof", 0)
  /\ bitpos = 0
  /\ dec_bp = 0
  /\ buffer \in DecodeBuffers
  /\ gb_res = GbResInit
  /\ acc_minlen \in DecodeAccMinlens
  /\ bit_t = 0
  /\ read_acc_minlen = FALSE
  /\ pc = "decode_time"
  /\ bit = GbResInit
  /\ minlen \in DecodeMinlens
  /\ ml_bitpos = 0
  /\ old_bitpos = 0
  /\ init_min \in 0..2
  /\ curtime \in DecodeTimes
  /\ mlr \in {[MlrInit EXCEPT !.settime = b] : b \in BOOLEAN}
  /\ was_toolong = FALSE
  /\ hooks = FALSE
  /\ dec_st \in {[DecoderStaticsInit EXCEPT !.acc_minlen_partial = p] : p \in DecodePartials}
  /\ call = CallInit
  /\ obs = ObsInit
  /\ realfreq = NominalRealfreq
  /\ init_bit = 2
  /\ logfile = "null"
  /\ flush_thread = "none"
  /\ log = <<>>
  /\ rec = <<>>
  /\ tlow = 0 /\ filter_y = LowpassHigh /\ stv = 1 /\ adj_freq_set = TRUE
  /\ filemode = 0 /\ fd = "zero" /\ bit_signal = "null" /\ released = ReleasedInit

\* check_handle_new_minute() at a minute marker: the call of decode_time()
\* and, when the clock is to be set, of setclock_ok() and setclock().
CallDecodeTime ==
  /\ pc = "decode_time"
  /\ \E s0 \in {[mlr |-> mlr, curtime |-> curtime, init_min |-> init_min, acc_minlen |-> acc_minlen, dec_st |-> dec_st, call |-> call, faults |-> src.faults]} :
       \E s1 \in check_handle_new_minute(s0, [bit EXCEPT !.marker = "emark_minute"], ml_bitpos, minlen, was_toolong, buffer) :
         /\ curtime' = s1.curtime /\ dec_st' = s1.dec_st /\ call' = s1.call
         /\ mlr' = s1.mlr /\ init_min' = s1.init_min /\ acc_minlen' = s1.acc_minlen
  /\ pc' = "returned"
  /\ UNCHANGED <<mode, src, peek, bitpos, dec_bp, buffer, gb_res, bit_t, read_acc_minlen, bit, minlen, ml_bitpos, old_bitpos, was_toolong, hooks, obs>>
  /\ UNCHANGED io_vars
  /\ UNCHANGED pulse_vars
  /\ UNCHANGED res_vars

NextDecode == CallDecodeTime

SpecDecode == InitDecode /\ [][NextDecode]_vars

(***************************************************************************)
(* SpecSampler: get_bit_live() second by second with the arithmetic of     *)
(* bit.realfreq and acc_minlen.  A second is sampled to its end, or its    *)
(* first get_pulse() read faults.                                          *)
(***************************************************************************)
\* Seconds sampled to their end in a run.
MaxGoodSecs == 2

\* The samples a second may take when it is sampled to its end.
GoodTs == {HwFreq - 2, HwFreq - 1}

\* Integer division of C: the quotient is truncated towards zero.
cdiv(a, b) == IF a >= 0 THEN a \div b ELSE -((-a) \div b)

\* get_bit_live() starts from the nominal frequency until the first second
\* was found.
realfreq_at_start(ib, rf) == IF ib = 2 THEN NominalRealfreq ELSE rf

\* The test of collect_pulses() that calls reset_frequency(); it follows a
\* get_pulse() that did not fault.
freq_out_of_range(rf) == rf <= HwFreq * 500000 \/ rf > HwFreq * 1000000

\* bit.realfreq += (long long)(bit.t * 1000000 - bit.realfreq) / 20, when
\* adj_freq is set.
adjust_realfreq(adj_freq, t, rf) == IF adj_freq THEN rf + cdiv(t * 1000000 - rf, 20) ELSE rf

\* The divisor bit.realfreq / 1000 of the acc_minlen update.
acc_divisor(rf) == cdiv(rf, 1000)

\* acc_minlen += 1000000 * bit.t / (bit.realfreq / 1000), the divisor not 0.
acc_minlen_live(acc, t, rf) == acc + cdiv(1000000 * t, acc_divisor(rf))

InitSampler ==
  /\ mode = "sampler"
  /\ src = SrcInit("live")
  /\ peek = Tok("eof", 0)
  /\ bitpos = 0
  /\ dec_bp = 0
  /\ buffer = [i \in 0..(BUFLEN - 1) |-> 0]
  /\ gb_res = GbResInit
  /\ acc_minlen = 0
  /\ bit_t = 0
  /\ read_acc_minlen = FALSE
  /\ pc = "get_bit"
  /\ bit = GbResInit
  /\ minlen = 0
  /\ ml_bitpos = 0
  /\ old_bitpos = 0
  /\ init_min = 2
  /\ curtime = ZeroTm
  /\ mlr = MlrInit
  /\ was_toolong = FALSE
  /\ hooks = FALSE
  /\ dec_st = DecoderStaticsInit
  /\ call = CallInit
  /\ obs = ObsInit
  /\ realfreq = NominalRealfreq
  /\ init_bit = 2
  /\ logfile = "null"
  /\ flush_thread = "none"
  /\ log = <<>>
  /\ rec = <<>>
  /\ tlow = 0 /\ filter_y = LowpassHigh /\ stv = 1 /\ adj_freq_set = TRUE
  /\ filemode = 1 /\ fd = "open" /\ bit_signal = "allocated" /\ released = ReleasedInit

\* get_bit_live() in a second that is sampled to its end (bit.t samples):
\* collect_pulses() finds the second and clears init_bit, resets a frequency
\* that is out of range, and the frequency is adjusted unless a reset or a
\* bad signal forbids it.
GoodSecond ==
  /\ pc = "get_bit" /\ mode = "sampler"
  /\ src.sec < StartSec + MaxGoodSecs
  /\ \E t \in GoodTs :
       \E rf0 \in {realfreq_at_start(init_bit, realfreq)} :
         \E adj_freq \in (IF freq_out_of_range(rf0) THEN {FALSE} ELSE BOOLEAN) :
           \E rf1 \in {adjust_realfreq(adj_freq, t, IF freq_out_of_range(rf0) THEN NominalRealfreq ELSE rf0)} :
             /\ gb_res' = set_new_state(gb_res)
             /\ bit' = set_new_state(gb_res)
             /\ bit_t' = t
             /\ init_bit' = 0
             /\ realfreq' = rf1
             /\ acc_minlen' = acc_minlen_live(acc_minlen, t, rf1)
             /\ src' = [src EXCEPT !.sec = @ + 1]
             /\ obs' = [obs EXCEPT !.step = "get_bit", !.ch = "0", !.acc_before = acc_minlen]
  /\ UNCHANGED <<mode, peek, bitpos, dec_bp, buffer, read_acc_minlen, pc, minlen, ml_bitpos, old_bitpos, init_min, curtime, mlr, was_toolong, hooks, dec_st, call, logfile, flush_thread, log, rec>>
  /\ UNCHANGED pulse_vars
  /\ UNCHANGED res_vars

\* get_bit_live() in a second whose first get_pulse() read faults:
\* collect_pulses() sets bad_io and returns 0 before its frequency test,
\* adj_freq is still set, so the frequency is adjusted towards 0.  A
\* division by zero in the acc_minlen update ends the process with a signal,
\* or, on hardware that does not trap, yields some quotient.
FaultSecond ==
  /\ pc = "get_bit" /\ mode = "sampler"
  /\ \E rf1 \in {adjust_realfreq(TRUE, 0, realfreq_at_start(init_bit, realfreq))} :
       /\ gb_res' = [set_new_state(gb_res) EXCEPT !.bad_io = TRUE]
       /\ bit' = [set_new_state(gb_res) EXCEPT !.bad_io = TRUE]
       /\ bit_t' = 0
       /\ realfreq' = rf1
       /\ IF acc_divisor(rf1) # 0
          THEN acc_minlen' = acc_minlen_live(acc_minlen, 0, rf1) /\ pc' = pc
          ELSE \/ pc' = "crashed" /\ acc_minlen' = acc_minlen
               \/ pc' = pc /\ acc_minlen' \in {acc_minlen, 0}
       /\ obs' = [obs EXCEPT !.step = "get_bit", !.ch = "*", !.acc_before = acc_minlen]
  /\ UNCHANGED <<mode, src, peek, bitpos, dec_bp, buffer, read_acc_minlen, minlen, ml_bitpos, old_bitpos, init_min, curtime, mlr, was_toolong, hooks, dec_st, call, init_bit, logfile, flush_thread, log, rec>>
  /\ UNCHANGED pulse_vars
  /\ UNCHANGED res_vars

NextSampler == GoodSecond \/ FaultSecond

SpecSampler == InitSampler /\ [][NextSampler]_vars

(***************************************************************************)
(* SpecPulses: collect_pulses() sample by sample, called by               *)
(* get_bit_live().  What get_pulse() returns is the input: 0, 1, or 2 for *)
(* a read fault.  The bit value that get_bit_live() derives from the      *)
(* lengths is left open; what it does to adj_freq is a choice.            *)
(***************************************************************************)
\* Seconds sampled in a run.
MaxPulseSecs == 2

\* The level of the Schmitt trigger.
SchmittLevel == 500000000

\* a * x / 1000000000 of the filter, with a = 1000000000 -
\* 1000000000 * exp2(-20.0 / hw.freq), which is 750000000 for hw.freq 10:
\* three quarters of x, truncated towards zero.
filter_gain(x) == 3 * cdiv(x, 4) + cdiv(3 * (x - 4 * cdiv(x, 4)), 4)

\* y += a * (p * 1000000000 - y) / 1000000000.
lowpass(yv, p) == yv + filter_gain(p * LowpassHigh - yv)

\* The timeout test bit.t > bit.realfreq * 1500000; for integers it is
\* rf <= (t - 1) div 1500000, the quotient rounded down.
timeout(t, rf) == rf <= (t - 1) \div 1500000

\* The hardware status the timeout branch stores.
timeout_hwstat(tl, t) ==
  IF tl <= HwFreq \div 20 THEN "ehw_receive"
  ELSE IF (tl * 100) \div t >= 99 THEN "ehw_transmit"
  ELSE "ehw_random"

\* Where get_bit_live() goes on when collect_pulses() returns: after its
\* first call, after the call for the rest of a split second.
collected(p) == IF p = "sample" THEN "collected" ELSE "collected2"

InitPulses ==
  /\ mode = "pulses"
  /\ src = SrcInit("live")
  /\ peek = Tok("eof", 0)
  /\ bitpos = 0
  /\ dec_bp = 0
  /\ buffer = [i \in 0..(BUFLEN - 1) |-> 0]
  /\ gb_res = GbResInit
  /\ acc_minlen = 0
  /\ bit_t = 0
  /\ read_acc_minlen = FALSE
  /\ pc = "get_bit"
  /\ bit = GbResInit
  /\ minlen = 0
  /\ ml_bitpos = 0
  /\ old_bitpos = 0
  /\ init_min = 2
  /\ curtime = ZeroTm
  /\ mlr = MlrInit
  /\ was_toolong = FALSE
  /\ hooks = FALSE
  /\ dec_st = DecoderStaticsInit
  /\ call = CallInit
  /\ obs = ObsInit
  /\ realfreq = NominalRealfreq
  /\ init_bit = 2
  /\ logfile = "null"
  /\ flush_thread = "none"
  /\ log = <<>>
  /\ rec = <<>>
  /\ tlow = 0 /\ filter_y = LowpassHigh /\ stv = 1 /\ adj_freq_set = TRUE
  /\ filemode = 1 /\ fd = "open" /\ bit_signal = "allocated" /\ released = ReleasedInit

\* get_bit_live() up to its call collect_pulses(0, ...), and the
\* initialisation of the locals of collect_pulses().
StartSecond ==
  /\ mode = "pulses" /\ pc = "get_bit"
  /\ src.sec < StartSec + MaxPulseSecs
  /\ adj_freq_set' = TRUE
  /\ gb_res' = set_new_state(gb_res)
  /\ realfreq' = realfreq_at_start(init_bit, realfreq)
  /\ tlow' = -1
  /\ bit_t' = 0
  /\ filter_y' = LowpassHigh
  /\ stv' = 1
  /\ pc' = "sample"
  /\ src' = [src EXCEPT !.sec = @ + 1]
  /\ UNCHANGED <<mode, peek, bitpos, dec_bp, buffer, acc_minlen, read_acc_minlen, bit, minlen, ml_bitpos, old_bitpos, init_min, curtime, mlr, was_toolong, hooks, dec_st, call, obs, init_bit, logfile, flush_thread, log, rec>>
  /\ UNCHANGED res_vars

\* One pass of the loop of collect_pulses(): the read, the filter, the
\* frequency test, the timeout test, the Schmitt trigger.
Sample ==
  /\ mode = "pulses" /\ pc \in {"sample", "sample2"} /\ bit_t < HwFreq
  /\ \E p \in {0, 1, 2} :
       IF p = 2
       THEN /\ gb_res' = [gb_res EXCEPT !.bad_io = TRUE]
            /\ pc' = collected(pc)
            /\ UNCHANGED <<bit_t, filter_y, stv, tlow, realfreq, adj_freq_set, init_bit>>
       ELSE \E y1 \in {lowpass(filter_y, p)} :
              \E rf1 \in {IF freq_out_of_range(realfreq) THEN NominalRealfreq ELSE realfreq} :
                /\ realfreq' = rf1
                /\ IF timeout(bit_t, rf1)
                   THEN /\ gb_res' = [gb_res EXCEPT !.hwstat = timeout_hwstat(tlow, bit_t)]
                        /\ adj_freq_set' = FALSE
                        /\ filter_y' = y1
                        /\ pc' = collected(pc)
                        /\ UNCHANGED <<bit_t, stv, tlow, init_bit>>
                   ELSE \E falls \in {y1 < SchmittLevel /\ stv = 1} :
                          \E rises \in {(IF falls THEN 0 ELSE y1) > SchmittLevel /\ (IF falls THEN 0 ELSE stv) = 0} :
                            /\ gb_res' = gb_res
                            /\ adj_freq_set' = (adj_freq_set /\ ~freq_out_of_range(realfreq))
                            /\ filter_y' = (IF falls THEN 0 ELSE y1)
                            /\ stv' = (IF falls THEN 0 ELSE stv)
                            /\ tlow' = (IF falls THEN bit_t ELSE tlow)
                            /\ init_bit' = (IF rises /\ init_bit = 2 THEN 1 ELSE init_bit)
                            /\ pc' = (IF rises THEN collected(pc) ELSE pc)
                            /\ bit_t' = (IF rises THEN bit_t ELSE bit_t + 1)
  /\ UNCHANGED <<mode, src, peek, bitpos, dec_bp, buffer, acc_minlen, read_acc_minlen, bit, minlen, ml_bitpos, old_bitpos, init_min, curtime, mlr, was_toolong, hooks, dec_st, call, obs, logfile, flush_thread, log, rec>>
  /\ UNCHANGED res_vars

\* collect_pulses() after a loop that ran to bit.t == hw.freq.
LoopEnd ==
  /\ mode = "pulses" /\ pc \in {"sample", "sample2"} /\ bit_t >= HwFreq
  /\ gb_res' = [gb_res EXCEPT !.hwstat = IF @ = "ehw_ok" THEN "ehw_random" ELSE @]
  /\ realfreq' = NominalRealfreq
  /\ adj_freq_set' = FALSE
  /\ pc' = collected(pc)
  /\ UNCHANGED <<mode, src, peek, bitpos, dec_bp, buffer, acc_minlen, bit_t, read_acc_minlen, bit, minlen, ml_bitpos, old_bitpos, init_min, curtime, mlr, was_toolong, hooks, dec_st, call, obs, init_bit, logfile, flush_thread, log, rec, tlow, filter_y, stv>>
  /\ UNCHANGED res_vars

\* get_bit_live() finds a split second (bit.t < bit.realfreq / 2500000) and
\* calls collect_pulses(bit.t, ...) for the rest of it.
SplitSecond ==
  /\ mode = "pulses" /\ pc = "collected"
  /\ ~gb_res.bad_io /\ gb_res.hwstat = "ehw_ok"
  /\ bit_t < cdiv(realfreq, 2500000)
  /\ gb_res' = [gb_res EXCEPT !.bitval = "ebv_01"]
  /\ filter_y' = LowpassHigh
  /\ stv' = 1
  /\ pc' = "sample2"
  /\ UNCHANGED <<mode, src, peek, bitpos, dec_bp, buffer, acc_minlen, bit_t, read_acc_minlen, bit, minlen, ml_bitpos, old_bitpos, init_min, curtime, mlr, was_toolong, hooks, dec_st, call, obs, realfreq, init_bit, logfile, flush_thread, log, rec, tlow, adj_freq_set>>
  /\ UNCHANGED res_vars

\* The rest of get_bit_live(): a bad signal or reset_bitlen() may clear
\* adj_freq, init_bit is counted down, the frequency is adjusted and
\* acc_minlen updated.
EndSecond ==
  /\ mode = "pulses" /\ pc \in {"collected", "collected2"}
  /\ \E adj \in (IF ~gb_res.bad_io /\ gb_res.hwstat = "ehw_ok" THEN {adj_freq_set, FALSE} ELSE {adj_freq_set}) :
       \E rf1 \in {adjust_realfreq(adj, bit_t, realfreq)} :
         /\ adj_freq_set' = adj
         /\ realfreq' = rf1
         /\ acc_minlen' = acc_minlen_live(acc_minlen, bit_t, rf1)
  /\ init_bit' = (IF ~gb_res.bad_io /\ init_bit = 1 THEN 0 ELSE init_bit)
  /\ bit' = gb_res
  /\ pc' = "get_bit"
  /\ UNCHANGED <<mode, src, peek, bitpos, dec_bp, buffer, gb_res, bit_t, read_acc_minlen, minlen, ml_bitpos, old_bitpos, init_min, curtime, mlr, was_toolong, hooks, dec_st, call, obs, logfile, flush_thread, log, rec, tlow, filter_y, stv>>
  /\ UNCHANGED res_vars

NextPulses == StartSecond \/ Sample \/ LoopEnd \/ SplitSecond \/ EndSecond

SpecPulses == InitPulses /\ [][NextPulses]_vars

(***************************************************************************)
(* SpecResources: set_mode_live(), set_mode_file(), append_logfile() and   *)
(* cleanup() called in any order, as compiled for Linux.                   *)
(***************************************************************************)
\* cleanup() runs at most this often in a run, the calls made by
\* set_mode_live() and set_mode_file() included.
MaxCleanups == 3

\* The places where set_mode_live() returns: "file_mode" for filemode == 2,
\* "config" for a missing key or a hw.freq out of range, then the calls of
\* open(), write() and close() on export, direction and value that can fail,
\* and "done" for return 0.  The snprintf() tests cannot fail: the longest
\* name has 40 characters and buf has 64.
LiveExits == {"config", "export_open", "export_write", "export_close", "direction_open", "direction_write", "direction_close", "value_open", "done"}

\* fd = open(...): a new descriptor, or -1.
fd_opened(r, ok) == IF ok THEN [r EXCEPT !.fd = "open", !.released.fd = 0] ELSE [r EXCEPT !.fd = "minus1"]

\* close(fd) in set_mode_live(): the descriptor is released whatever close()
\* returns, and fd keeps its number.
fd_closed(r) == [r EXCEPT !.fd = "stale", !.released = count_release(@, "fd")]

\* bit.signal = malloc(hw.freq / 2); the result is not tested.
malloc_signal(r, ok) == [r EXCEPT !.bit_signal = IF ok THEN "allocated" ELSE "null", !.released.bit_signal = 0]

\* logfile = fopen(...).
logfile_opened(r, ok) == IF ok THEN [r EXCEPT !.logfile = "open", !.released.logfile = 0] ELSE [r EXCEPT !.logfile = "null"]

\* The result of a set_mode function that called cleanup() and failed.
failed(r, fm, fclose_ok) == [r |-> cleanup(r, fclose_ok), filemode |-> fm, cleanups |-> 1]

set_mode_live(r, fm, exit, malloc_ok, fclose_ok) ==
  IF fm = 2 \/ exit = "config" THEN failed(r, fm, fclose_ok)
  ELSE LET r1 == fd_opened(malloc_signal(r, malloc_ok), exit # "export_open")
           r2 == fd_opened(fd_closed(r1), exit # "direction_open")
           r3 == fd_opened(fd_closed(r2), exit # "value_open")
       IN  IF exit \in {"export_open", "export_write"} THEN failed(r1, fm, fclose_ok)
           ELSE IF exit = "export_close" THEN failed(fd_closed(r1), fm, fclose_ok)
           ELSE IF exit \in {"direction_open", "direction_write"} THEN failed(r2, fm, fclose_ok)
           ELSE IF exit = "direction_close" THEN failed(fd_closed(r2), fm, fclose_ok)
           ELSE IF exit = "value_open" THEN failed(r3, fm, fclose_ok)
           ELSE [r |-> r3, filemode |-> 1, cleanups |-> 0]

\* What set_mode_file() and append_logfile() are given: no name, the name of
\* a file that cannot be opened, or the name of one that can.
FileArgs == {"null", "unopenable", "openable"}

set_mode_file(r, fm, arg, fclose_ok) ==
  IF fm = 1 THEN failed(r, fm, fclose_ok)
  ELSE IF arg = "null" THEN [r |-> r, filemode |-> fm, cleanups |-> 0]
  ELSE [r |-> logfile_opened(r, arg = "openable"), filemode |-> IF arg = "openable" THEN 2 ELSE fm, cleanups |-> 0]

append_logfile(r, arg) == IF arg = "null" THEN r ELSE logfile_opened(r, arg = "openable")

InitResources ==
  /\ mode = "resources"
  /\ src = SrcInit("live")
  /\ peek = Tok("eof", 0)
  /\ bitpos = 0
  /\ dec_bp = 0
  /\ buffer = [i \in 0..(BUFLEN - 1) |-> 0]
  /\ gb_res = GbResInit
  /\ acc_minlen = 0
  /\ bit_t = 0
  /\ read_acc_minlen = FALSE
  /\ pc = "api"
  /\ bit = GbResInit
  /\ minlen = 0
  /\ ml_bitpos = 0
  /\ old_bitpos = 0
  /\ init_min = 2
  /\ curtime = ZeroTm
  /\ mlr = MlrInit
  /\ was_toolong = FALSE
  /\ hooks = FALSE
  /\ dec_st = DecoderStaticsInit
  /\ call = CallInit
  /\ obs = ObsInit
  /\ realfreq = NominalRealfreq
  /\ init_bit = 2
  /\ logfile = "null"
  /\ flush_thread = "none"
  /\ log = <<>>
  /\ rec = <<>>
  /\ tlow = 0 /\ filter_y = LowpassHigh /\ stv = 1 /\ adj_freq_set = TRUE
  /\ filemode = 0 /\ fd = "zero" /\ bit_signal = "null" /\ released = ReleasedInit

\* What no function of this specification touches.
api_unchanged == <<mode, src, peek, bitpos, dec_bp, buffer, gb_res, acc_minlen, bit_t, read_acc_minlen, bit, minlen, ml_bitpos, old_bitpos, init_min, curtime, mlr, was_toolong, hooks, dec_st, call, realfreq, init_bit, log, rec, tlow, filter_y, stv, adj_freq_set>>

\* The caller is back from a call that left the statics as r: fclose() or
\* free() of what was released before is undefined and may end the process.
Returned(r, name, cleanups) ==
  /\ fd' = r.fd /\ logfile' = r.logfile /\ bit_signal' = r.bit_signal /\ released' = r.released
  /\ obs' = [obs EXCEPT !.step = name, !.cleanups = @ + cleanups]
  /\ pc' \in (IF r.undefined THEN {"api", "crashed"} ELSE {"api"})

SetModeLive ==
  /\ pc = "api" /\ obs.cleanups < MaxCleanups
  /\ \E exit \in LiveExits, malloc_ok \in BOOLEAN, fclose_ok \in BOOLEAN :
       \E res \in {set_mode_live(ResOf, filemode, exit, malloc_ok, fclose_ok)} :
         /\ filemode' = res.filemode
         /\ Returned(res.r, "set_mode_live", res.cleanups)
  /\ UNCHANGED flush_thread
  /\ UNCHANGED api_unchanged

SetModeFile ==
  /\ pc = "api" /\ obs.cleanups < MaxCleanups
  /\ \E arg \in FileArgs, fclose_ok \in BOOLEAN :
       \E res \in {set_mode_file(ResOf, filemode, arg, fclose_ok)} :
         /\ filemode' = res.filemode
         /\ Returned(res.r, "set_mode_file", res.cleanups)
  /\ UNCHANGED flush_thread
  /\ UNCHANGED api_unchanged

\* append_logfile(): after fopen() it writes the header and creates the
\* thread of flush_logfile(), which pthread_create() may refuse.
AppendLogfile ==
  /\ pc = "api"
  /\ \E arg \in FileArgs, created \in BOOLEAN :
       \E r \in {append_logfile(ResOf, arg)} :
         /\ Returned(r, "append_logfile", 0)
         /\ flush_thread' = IF r.logfile = "open" /\ arg = "openable" /\ created /\ flush_thread = "none" THEN "fflush" ELSE flush_thread
  /\ UNCHANGED filemode
  /\ UNCHANGED api_unchanged

\* cleanup() called by the caller, as main() and mainloop() do.
CleanupCall ==
  /\ pc = "api" /\ obs.cleanups < MaxCleanups
  /\ \E fclose_ok \in BOOLEAN : Returned(cleanup(ResOf, fclose_ok), "cleanup", 1)
  /\ UNCHANGED <<filemode, flush_thread>>
  /\ UNCHANGED api_unchanged

NextResources == SetModeLive \/ SetModeFile \/ AppendLogfile \/ CleanupCall \/ FlushLogfile

SpecResources == InitResources /\ [][NextResources]_vars

(***************************************************************************)
(* Properties of decode_time(), stated on the record of its last call.     *)
(***************************************************************************)
SixFields(t) == <<t.tm_min, t.tm_hour, t.tm_mday, t.tm_mon, t.tm_year, t.tm_wday>>

FieldStatuses(dt) == {dt.minute_status, dt.hour_status, dt.mday_status, dt.wday_status, dt.month_status, dt.year_status}

\* The number of symbols of buffer[start..stop] with the A bit set (1 is "10",
\* 3 is "11"), and the B bit of a symbol (2 is "01", 3 is "11").
OnesA(buf, start, stop) == Cardinality({i \in start..stop : buf[i] \in {1, 3}})

BOf(buf, i) == IF buf[i] \in {2, 3} THEN 1 ELSE 0

\* The four parity groups: first and last data bit, parity bit.
ParityGroups == <<<<17, 24, 54>>, <<25, 35, 55>>, <<36, 38, 56>>, <<39, 51, 57>>>>

GroupOnes(buf, g) == OnesA(buf, ParityGroups[g][1], ParityGroups[g][2]) + BOf(buf, ParityGroups[g][3])

\* The candidate time holds no decoded field value: it is as memset() left it,
\* but for the century that is added to the year.
NotDecoded(nt) == nt.tm_min = 0 /\ nt.tm_hour = 0 /\ nt.tm_mday = 0 /\ nt.tm_mon = 0 /\ nt.tm_wday = 0 /\ nt.tm_year % 100 = 0

SanityPassed == call.minlen \in 59..61 /\ call.buffer[0] = 4 /\ call.buffer[59] = 0

C2_CommitOnlyIfChecksPass ==
  call.n > 0 =>
    /\ (call.committed \/ SixFields(curtime) # SixFields(call.advanced)) =>
         /\ call.dt.minute_length = "emin_ok" /\ call.errflags % 32 = 0
         /\ call.dt.bit0_ok /\ call.dt.bit59_ok
         /\ FieldStatuses(call.dt) \cap {"eval_parity", "eval_bcd"} = {}
         /\ SixFields(curtime) = SixFields(call.newtime)
    /\ ~(call.dt.minute_length = "emin_ok" /\ call.errflags % 32 = 0) => SixFields(curtime) = SixFields(call.advanced)

\* A minute with a year parity error after an advance of the time: the
\* advanced values stay.
C2_Witness ==
  /\ call.n > 0 /\ ~call.committed /\ call.dt.year_status = "eval_parity"
  /\ SixFields(call.advanced) # SixFields(call.before)
  /\ SixFields(curtime) = SixFields(call.advanced)
  /\ ~NotDecoded(call.newtime)

\* C3: in every run of mainloop(), live or from a file, bitpos stays within
\* 0..60 after every get_bit() and next_bit(), so does the index of every
\* buffer store, and the roll-back of next_bit() does not take bitpos below 0.
C3_BitposInBounds ==
  /\ bitpos \in 0..(BUFLEN - 1)
  /\ ml_bitpos \in 0..(BUFLEN - 1)
  /\ obs.after_dec >= 0
  /\ obs.stored \in -1..(BUFLEN - 1)

\* The roll-back took bitpos from 1 to 0 after the a<ms> of a minute marker.
C3_Witness == mode = "file" /\ dec_bp = 2 /\ obs.after_dec = 0 /\ bitpos = 0 /\ gb_res.skip

\* C4: when 62 symbols have arrived without a minute marker, next_bit() has
\* returned too_long; from then on minlen is -1, and the following minute
\* marker triggers a decode_time() call with minlen -1 that reports
\* minute_length long and does not commit.
C4_TooLongMinute ==
  /\ obs.nbits > BUFLEN => obs.toolong
  /\ obs.toolong => minlen = -1
  /\ obs.marker_after_toolong => obs.decoded /\ obs.after_toolong
  /\ (call.n > 0 /\ obs.after_toolong) => call.minlen = -1 /\ call.dt.minute_length = "emin_long" /\ ~call.committed /\ curtime = call.advanced

\* The minute marker after a too_long: the minute is decoded as long.
C4_Witness ==
  /\ obs.marker_after_toolong /\ obs.decoded /\ obs.after_toolong
  /\ call.minlen = -1 /\ call.dt.minute_length = "emin_long" /\ ~call.committed

\* C5: next_bit() returns too_long exactly in the call in which bitpos
\* reaches 61, and that call sets bitpos to 0; a pending too_long is cleared
\* to none in a call in which the buffer fits, a pending late is turned into
\* minute, and next_bit() never returns late.
C5_NextBitMarkers ==
  obs.calls > 0 =>
    /\ (obs.returned = "emark_toolong") = obs.at61
    /\ obs.at61 => obs.bitpos_after = 0
    /\ (obs.pending = "emark_toolong" /\ ~obs.at61) => obs.returned = "emark_none"
    /\ obs.pending = "emark_late" => obs.returned = "emark_minute"
    /\ obs.returned # "emark_late"
    /\ pc = "get_bit" => bit.marker # "emark_late"

\* A minute marker read while a too_long was pending: next_bit() was entered
\* with late and returned minute.
C5_Witness == obs.calls > 0 /\ obs.pending = "emark_late" /\ obs.returned = "emark_minute" /\ bitpos = 1

\* C6: the first bit symbol after a minute marker, with nothing but a<ms>
\* records and line ends between the two, is stored in buffer[1].
C6_FirstBitInBuffer1 == obs.first_at \in {-1, 1}

\* C7 as stated: getpar() returns true exactly when the number of set A bits
\* of buffer[start..stop] plus the B bit of buffer[parity] is even.
C7_ParityEven ==
  call.n > 0 => \A g \in 1..4 : call.par[g] = (GroupOnes(call.buffer, g) % 2 = 0)

\* C7 as amended: getpar() returns true exactly when the number of set A bits
\* of buffer[start..stop] plus the B bit of buffer[parity] is odd.
C7_ParityOdd ==
  call.n > 0 => \A g \in 1..4 : call.par[g] = (GroupOnes(call.buffer, g) % 2 = 1)

\* A call in which the year group is accepted and the hour and minute group
\* is rejected.
C7_Witness ==
  /\ call.n > 0 /\ call.par[1] /\ ~call.par[4]
  /\ call.dt.year_status # "eval_parity" /\ call.dt.hour_status = "eval_parity"

\* The values getbcd() reads from the buffer of the call.
BcdYear == getbcd(call.buffer, 17, 24)

BcdMonth == getbcd(call.buffer, 25, 29)

BcdMday == getbcd(call.buffer, 30, 35)

BcdWday == getbcd(call.buffer, 36, 38)

BcdHour == getbcd(call.buffer, 39, 44)

BcdMinute == getbcd(call.buffer, 45, 51)

\* C8: a field whose parity check fails has status parity, a field whose
\* parity holds and whose value is out of range has status bcd, and no later
\* step of the decode replaces a parity status.
C8_ParityStatusKept ==
  call.n > 0 =>
    /\ ~call.par[1] => call.dt.year_status = "eval_parity"
    /\ ~call.par[2] => call.dt.month_status = "eval_parity" /\ call.dt.mday_status = "eval_parity"
    /\ ~call.par[3] => call.dt.wday_status = "eval_parity"
    /\ ~call.par[4] => call.dt.hour_status = "eval_parity" /\ call.dt.minute_status = "eval_parity"
    /\ (call.par[2] /\ BcdMonth \notin 1..12) => call.dt.month_status = "eval_bcd"
    /\ (call.par[2] /\ BcdMday \notin 1..31) => call.dt.mday_status = "eval_bcd"
    /\ (call.par[3] /\ BcdWday = 7) => call.dt.wday_status = "eval_bcd"
    /\ (call.par[4] /\ BcdHour > 23) => call.dt.hour_status = "eval_bcd"
    /\ (call.par[4] /\ BcdMinute > 59) => call.dt.minute_status = "eval_bcd"

\* The decoded values may be stored in the candidate time: the sanity check
\* passed and the time was advanced.
MaySet == call.errflags \div 16 = 0 /\ call.increase # 0

MonthMdayGood == call.par[2] /\ BcdMonth \in 1..12 /\ BcdMday \in 1..31

C10_SanityAndDecodeGate ==
  call.n > 0 =>
    /\ (call.dt.minute_length = "emin_long") = (call.minlen = -1 \/ call.minlen > 61)
    /\ (call.dt.minute_length = "emin_short") = (call.minlen < 59 /\ call.minlen # -1)
    /\ (call.dt.minute_length = "emin_ok") = (call.minlen \in 59..61)
    /\ call.dt.bit0_ok = (call.buffer[0] = 4)
    /\ call.dt.bit59_ok = (call.buffer[59] = 0)
    /\ ~SanityPassed => NotDecoded(call.newtime)

\* A first call on a correct buffer with a minute of 58 bits: the length is
\* short and nothing is decoded.
C10_Witness ==
  /\ call.n > 0 /\ call.init_min = 2 /\ call.buffer = EncodeMinute(Tx1)
  /\ call.minlen = 58 /\ call.dt.minute_length = "emin_short" /\ NotDecoded(call.newtime)

\* C11: a call of decode_time() with init_min < 2 first advances the current
\* time by the computed number of minutes, one add_minute() per minute, also
\* when the minute has parity, BCD or length errors; a call with init_min = 2
\* does not advance it.
C11_AdvanceByIncrease ==
  call.n > 0 =>
    /\ call.increase \in 0..2
    /\ call.init_min < 2 =>
         call.advanced = (IF call.increase = 0 THEN call.before
                          ELSE IF call.increase = 1 THEN add_minute(call.before, call.dt.dst_announce)
                          ELSE add_minute(add_minute(call.before, call.dt.dst_announce), call.dt.dst_announce))
    /\ call.init_min = 2 => SixFields(call.advanced) = SixFields(call.before)

\* A call with init_min < 2 on a minute with a length error (nothing is
\* decoded) whose time was advanced by two minutes, across the end of the year.
C11_Witness ==
  /\ call.n > 0 /\ call.init_min < 2 /\ call.increase = 2
  /\ call.dt.minute_length # "emin_ok" /\ call.errflags # 0
  /\ call.before = T1 /\ call.advanced.tm_min = 1 /\ call.advanced.tm_hour = 0
  /\ call.advanced.tm_mday = 1 /\ call.advanced.tm_mon = 1 /\ call.advanced.tm_year = 2020

\* The fields with a status of parity, bcd or jump in the result of the last
\* decode_time() call.
UnsafeStatuses == FieldStatuses(call.dt) \cap {"eval_parity", "eval_bcd", "eval_jump"}

\* C12: setclock() is called only at a processed minute marker for which
\* mlr.settime is set and setclock_ok() holds: never while init_min > 0,
\* never for a minute with a field status of parity, bcd or jump, never when
\* minute_length is not ok (the minute after a too_long has minlen -1);
\* when the preconditions fail settime_result becomes esc_unsafe and
\* setclock() is not called.
C12_SetclockOnlyWhenSafe ==
  call.n > 0 =>
    /\ call.setclock = "called" =>
         /\ call.settime /\ call.init_min = 0 /\ UnsafeStatuses = {}
         /\ call.dt.minute_length = "emin_ok" /\ call.minlen # -1
         /\ call.marker = "emark_minute"
         /\ mlr.settime_result \in {"esc_ok", "esc_fail"}
    /\ (call.settime /\ (call.init_min > 0 \/ UnsafeStatuses # {} \/ call.dt.minute_length # "emin_ok")) =>
         call.setclock = "refused" /\ mlr.settime_result = "esc_unsafe"
    /\ ~call.settime => call.setclock = "not_asked" /\ mlr.settime_result = "esc_unset"

\* The clock is to be set on a settled decoder and the minute was committed
\* with the jump of a field: setclock() is refused.
C12_Witness ==
  /\ call.n > 0 /\ call.settime /\ call.init_min = 0 /\ call.committed
  /\ call.dt.minute_status = "eval_jump" /\ call.dt.minute_length = "emin_ok"
  /\ call.setclock = "refused" /\ mlr.settime_result = "esc_unsafe"

\* The loop is running only while neither done nor quit was seen at a test:
\* an iteration starts with both unset, and process_input() is followed by
\* the test of both.
C13_LoopLeftAtOnce ==
  /\ pc = "get_bit" => ~gb_res.done /\ ~mlr.quit
  /\ (pc = "next_bit" /\ hooks) => ~gb_res.done
  /\ pc \in {"cleanup", "cleanup_fclosed", "exit"} => gb_res.done \/ mlr.quit
  /\ obs.cleanups = (IF pc \in {"get_bit", "next_bit", "cleanup"} THEN 0 ELSE 1)

\* C13: mainloop() terminates on bit.done || mlr.quit: in the iteration in
\* which get_bit() returns done or a hook sets mlr.quit the loop is left and
\* cleanup() is called exactly once; if get_bit() returns done, mainloop()
\* eventually returns.
C13_Terminates == []C13_LoopLeftAtOnce /\ (gb_res.done ~> pc = "exit")

\* A replayed log came to its end without a request to quit: the loop was
\* left, cleanup() was called once and mainloop() returned.
C13_Witness == pc = "exit" /\ gb_res.done /\ ~mlr.quit /\ obs.cleanups = 1 /\ call.n >= 2

\* C14 as stated: acc_minlen does not decrease in a get_bit() call, a<ms>
\* records included, and the main loop resets it to 0 only after a minute
\* marker whose decoded minute was committed or whose marker was late (came
\* after a too_long, so that the minute is decoded with minlen -1).
C14_ResetOnlyCommittedOrLate ==
  /\ obs.step = "get_bit" => acc_minlen >= obs.acc_before
  /\ (obs.step = "next_bit" /\ acc_minlen # obs.acc_before) =>
       /\ acc_minlen = 0 /\ obs.decoded
       /\ call.committed \/ obs.pending = "emark_late" \/ call.minlen = -1

\* C14, amended: acc_minlen does not decrease in a get_bit() call unless
\* get_bit_file() reads an a<ms> record, which replaces it by the recorded
\* number; the main loop resets it to 0 after every minute marker it decodes,
\* committed or not, and changes it at no other place.
C14_AccMinlenSteps ==
  /\ obs.step = "get_bit" =>
       \/ acc_minlen >= obs.acc_before
       \/ mode = "file" /\ obs.ch = "a" /\ obs.a_n >= 0 /\ acc_minlen = obs.a_n
  /\ obs.step = "next_bit" => acc_minlen = (IF obs.decoded THEN 0 ELSE obs.acc_before)

\* The minute marker after a first, partial minute: the minute is too short
\* and is not committed, the marker is not late, and acc_minlen is reset.
C14_Witness ==
  /\ obs.step = "next_bit" /\ obs.decoded /\ ~call.committed
  /\ call.minlen \in 0..58 /\ obs.pending = "emark_minute"
  /\ obs.acc_before > 0 /\ acc_minlen = 0

\* C15: get_bit() reports the marker late whenever a start-of-minute symbol
\* arrives after next_bit() has reported a too_long and no minute marker was
\* seen since, in both input modes and however many bits lie between; it
\* reports the marker minute only when no overflow is pending.
C15_LateAfterOverflow ==
  (obs.step = "get_bit" /\ obs.ch = "4") =>
    gb_res.marker = (IF obs.toolong THEN "emark_late" ELSE "emark_minute")

\* C16: a persistent read fault never tears down the process: in every
\* get_bit_live() call whose get_pulse() reads fault, also after good
\* seconds, the result has bad_io set, bit.realfreq / 1000 is not 0, so that
\* the acc_minlen update does not divide by zero, and the main loop keeps
\* iterating.
C16_FaultsNeverTearDown ==
  mode = "sampler" =>
    /\ pc = "get_bit"
    /\ acc_divisor(realfreq) # 0
    /\ obs.ch = "*" => gb_res.bad_io

\* C17: the thread of flush_logfile() never works on a closed log: cleanup()
\* stops or joins it before it closes the log, so in no interleaving is
\* fflush() called on a FILE that was closed by fclose().
C17_NoFlushOnClosedLog ==
  /\ logfile = "closed" => flush_thread = "none"
  /\ ~obs.flushed_closed

\* The status character of the second get_bit() just returned, by its result.
StatusCharOf(g) ==
  IF g.bad_io THEN "*"
  ELSE IF g.hwstat = "ehw_receive" THEN "r"
  ELSE IF g.hwstat = "ehw_transmit" THEN "x"
  ELSE IF g.hwstat = "ehw_random" THEN "#"
  ELSE CASE g.bitval = "ebv_00" -> "0" [] g.bitval = "ebv_10" -> "1" [] g.bitval = "ebv_01" -> "2"
         [] g.bitval = "ebv_11" -> "3" [] g.bitval = "ebv_bom" -> "4" [] OTHER -> "_"

\* C19: get_bit_live() writes exactly one status character per second to
\* the log: '*' when the read faulted, 'r', 'x' or '#' for the hardware
\* status receive, transmit or random, and the digit 0-4 or '_' otherwise (a
\* minute marker is followed by its a<ms> record).
C19_OneStatusCharPerSecond ==
  (mode = "live" /\ logfile = "open" /\ obs.step = "get_bit") =>
    /\ Len(log) = obs.log_before + (IF gb_res.marker \in {"emark_minute", "emark_late"} THEN 3 ELSE 1)
    /\ log[obs.log_before + 1].ch = StatusCharOf(gb_res)

\* C18: log round trip: replaying the log written by get_bit_live() through
\* get_bit_file() and mainloop() yields the same bit symbols at the same
\* buffer positions and hands the same acc_minlen to decode_time() at each
\* minute marker as the reception did (rec): the n-th decode_time() call of
\* the replay gets the acc_minlen and the buffer of the n-th call of the
\* reception, and the replay has as many calls.
C18_LogRoundTrip ==
  (mode = "file" /\ src.fmt = "replay") =>
    /\ call.n <= Len(rec)
    /\ call.n > 0 => call.acc = rec[call.n].acc /\ call.buffer = rec[call.n].buffer
    /\ pc = "exit" => call.n = Len(rec)

\* C20: DST handling in a decode_time() call with init_min < 2: an error-free
\* minute with bit 16 set increments dst_count (the statics start at 0, and
\* the count is cleared again when the minute is :00), and past minute :00
\* dst_announce is 2 * dst_count > minute_count.
C20_DstHandling ==
  (pc = "returned" /\ call.n = 1 /\ call.init_min < 2 /\ call.errflags = 0 /\ call.buffer[16] = 1) =>
    /\ dec_st.dst_count = (IF call.advanced.tm_min = 0 THEN 0 ELSE DecoderStaticsInit.dst_count + 1)
    /\ call.advanced.tm_min > 0 => call.dt.dst_announce = (2 * dec_st.dst_count > dec_st.minute_count)

\* C21: leap second: a decode_time() call (init_min < 2) with minlen 61, the
\* current minute 0 and buffer[17] = 0 returns leapsecond_status done and
\* minute_length ok, and the minute is committed when the sanity check, all
\* parities and all ranges pass.
C21_LeapSecondDone ==
  (pc = "returned" /\ call.n > 0 /\ call.init_min < 2 /\ call.minlen = 61 /\ call.advanced.tm_min = 0 /\ call.buffer[17] = 0) =>
    /\ call.dt.leapsecond_status = "els_done"
    /\ call.dt.minute_length = "emin_ok"
    /\ call.errflags = 0 => call.committed

\* C22: in an iteration of mainloop() decode_time() is called exactly once
\* when next_bit() returns marker minute and not at all when it returns none
\* or too_long (it never returns late); the two check_handle_new_minute()
\* calls of an iteration after a too_long (minlen -1) never both decode, the
\* one call decoding with minlen -1; acc_minlen is reset and init_min is
\* decremented (down to 0) in exactly the iterations with a minute marker.
C22_DecodeOncePerMarker ==
  [][(pc = "next_bit" /\ pc' \in {"get_bit", "cleanup"}) =>
       /\ gb_res'.marker \in {"emark_none", "emark_minute", "emark_toolong"}
       /\ call'.n = call.n + (IF gb_res'.marker = "emark_minute" THEN 1 ELSE 0)
       /\ (gb_res'.marker = "emark_minute" /\ minlen = -1) => call'.minlen = -1
       /\ (gb_res'.marker = "emark_minute" /\ minlen # -1) => call'.minlen = minlen'
       /\ init_min' = (IF gb_res'.marker = "emark_minute" /\ init_min > 0 THEN init_min - 1 ELSE init_min)
       /\ acc_minlen' = (IF gb_res'.marker = "emark_minute" THEN 0 ELSE acc_minlen)]_vars

\* The second decode_time() call of a run was made for the minute marker
\* that followed a too_long: one call, with minlen -1, init_min decremented
\* to 0 and acc_minlen reset.
C22_Witness ==
  /\ pc = "get_bit" /\ obs.step = "next_bit" /\ obs.decoded /\ obs.after_toolong
  /\ call.n = 2 /\ call.minlen = -1 /\ call.init_min = 1 /\ init_min = 0 /\ acc_minlen = 0

\* C23: a run of mainloop() with hooks that returned mlr unchanged makes the
\* display_bit(), next_bit() and decode_time() calls of a run without hooks:
\* as without hooks, when the loop is left every result of get_bit(), the
\* last one with done included, has been handed on to next_bit() and the
\* rest of the iteration.
C23_NoopHookAsNull ==
  (pc \in {"cleanup", "cleanup_fclosed", "exit"} /\ mlr = MlrInit) => obs.step = "next_bit"

\* C24: whenever get_bit() has returned a begin-of-minute symbol (bitval
\* bom), with live input and with a log, buffer[0] holds it (4); so the
\* minute that ends at the next marker is decoded with buffer[0] = 4.
C24_BomAtBuffer0 ==
  /\ (obs.step = "get_bit" /\ gb_res.bitval = "ebv_bom") => buffer[0] = 4
  /\ (obs.step = "next_bit" /\ obs.decoded /\ call.n >= 2) => call.buffer[0] = 4 /\ call.dt.bit0_ok

C26_NoCalibrationOnFault ==
  [][(mode = "sampler" /\ pc = "get_bit" /\ gb_res'.bad_io) => realfreq' = realfreq_at_start(init_bit, realfreq)]_vars

\* C27: a second of live sampling without a rising transition of the Schmitt
\* trigger (collect_pulses() returns with a hardware status other than ok)
\* was ended by the timeout, after more than 1.5 times the estimated
\* samples per second (bit.realfreq / 1000000), and is classified receive
\* when t_low <= freq / 20, transmit when t_low * 100 / t >= 99, and random
\* otherwise.
C27_TimeoutAfterOneAndAHalf ==
  (mode = "pulses" /\ pc \in {"collected", "collected2"} /\ ~gb_res.bad_io /\ gb_res.hwstat # "ehw_ok") =>
    /\ 2 * bit_t * 1000000 > 3 * realfreq
    /\ gb_res.hwstat = timeout_hwstat(tlow, bit_t)

\* C28 as stated: when century_offset() returns -1, decode_time() gives the
\* year the status bcd and sets the year flag (errflags bit 0) and the
\* month/day flag (errflags bit 1).
C28_CenturyCascades ==
  (call.n > 0 /\ call.centofs = -1) =>
    /\ call.dt.year_status = "eval_bcd"
    /\ call.errflags % 2 = 1
    /\ (call.errflags \div 2) % 2 = 1

\* C28, amended: when century_offset() returns -1, decode_time() gives the
\* year the status bcd and sets the year flag only: the month/day flag is
\* set exactly when the parity or a range of month and day failed, their
\* statuses stay as that check left them, and the minute is not committed.
C28_CenturyYearOnly ==
  (call.n > 0 /\ call.centofs = -1) =>
    /\ call.dt.year_status = "eval_bcd"
    /\ call.errflags % 2 = 1
    /\ ((call.errflags \div 2) % 2 = 1) = ~MonthMdayGood
    /\ MonthMdayGood => call.dt.month_status \in {"eval_ok", "eval_jump"} /\ call.dt.mday_status \in {"eval_ok", "eval_jump"}
    /\ ~call.committed /\ curtime = call.advanced

\* A minute whose parities and ranges all pass and whose day of the week
\* fits the date in no century: only the year flag is set.
C28_Witness ==
  /\ call.n > 0 /\ call.centofs = -1 /\ WellFormedDate(call.newtime)
  /\ call.par = <<TRUE, TRUE, TRUE, TRUE>> /\ MonthMdayGood
  /\ call.errflags = 1 /\ call.dt.year_status = "eval_bcd"
  /\ call.dt.month_status = "eval_ok" /\ call.dt.mday_status = "eval_ok" /\ ~call.committed

\* The candidate date of the call has a century and a day of the month past
\* the last day of its month.
MdayPastLastday == call.n > 0 /\ call.centofs # -1 /\ call.newtime.tm_mday > lastday(call.newtime)

\* C29 as stated: when the decoded day of the month exceeds the last day of
\* the candidate month and year, decode_time() gives month, day of the month
\* and year the status bcd and does not commit the minute.
C29_CeilingTrioBcd ==
  MdayPastLastday =>
    /\ call.dt.month_status = "eval_bcd"
    /\ call.dt.mday_status = "eval_bcd"
    /\ call.dt.year_status = "eval_bcd"
    /\ ~call.committed

\* C29, amended: when the day of the month exceeds the last day of the
\* candidate month and year, decode_time() gives the day of the month the
\* status bcd, sets the flags of year, month/day and day of the week, and does
\* not commit the minute; the month has status bcd only when its own value is
\* out of range, the year only when its own value is.
C29_CeilingMdayBcd ==
  MdayPastLastday =>
    /\ call.dt.mday_status = "eval_bcd"
    /\ call.errflags % 8 = 7
    /\ ~call.committed /\ curtime = call.advanced
    /\ call.dt.month_status = "eval_bcd" <=> (call.par[2] /\ BcdMonth \notin 1..12)
    /\ call.dt.year_status = "eval_bcd" <=> (call.par[1] /\ BcdYear > 99)

\* A minute that names 30 February with all parities good: the day has status
\* bcd, month and year keep the status ok, and the three flags are set.
C29_Witness ==
  /\ MdayPastLastday /\ call.par = <<TRUE, TRUE, TRUE, TRUE>> /\ MonthMdayGood
  /\ BcdMonth = 2 /\ BcdMday = 30 /\ call.newtime.tm_mon = 2 /\ call.newtime.tm_mday = 30
  /\ call.dt.mday_status = "eval_bcd" /\ call.dt.month_status = "eval_ok" /\ call.dt.year_status = "eval_ok"
  /\ call.errflags = 7 /\ ~call.committed

C31_ReleasedAtMostOnce ==
  mode = "resources" =>
    /\ released.fd <= 1 /\ released.logfile <= 1 /\ released.bit_signal <= 1
    /\ ~obs.flushed_closed

=============================================================================
